---- MODULE Spec2Model ----
(***************************************************************************)
(* The actor/learner pipeline of                                           *)
(* continual_rl/policies/impala/torchbeast/monobeast.py: the buffer-slot   *)
(* pool with its free and full index queues, the actor loop (act), the     *)
(* batch assembler (get_batch), the learner thread loop (batch_and_learn), *)
(* the per-thread lifecycle state (LearnerThreadState) and the pause /     *)
(* yield / resume cycle of the orchestrator (train).                       *)
(***************************************************************************)
EXTENDS Integers, Sequences, FiniteSets

\* ------------------------------------------------------------------ bounds
\* The configuration the pipeline is run with (model_flags).
NumActors == 2
NumBuffers == 3
BatchSize == 2
UnrollLength == 1
NumLearnerThreads == 1
\* The most learner threads a generation has in any specification below.
MaxLearnerThreads == 2
\* The learners stop starting iterations once this many updates are counted.
MaxUpdates == 3
\* The actors start at most this many rollouts in all.
MaxRollouts == 5
\* The orchestrator goes through the barrier at most this many times.
MaxYields == 2

\* ------------------------------------------------------- LearnerThreadState
STARTING == 0
RUNNING == 1
STOP_REQUESTED == 2
STOPPED == 3

Actors == 1..NumActors
Slots == 0..(NumBuffers - 1)
\* Every resume after a yield starts a new generation of learner threads.
Gens == 0..MaxYields
Threads == Gens \X (1..MaxLearnerThreads)

\* The part of a learner iteration between the start of get_batch and the
\* end of the statistics block.
MidIter == {"lock", "dequeue", "copy", "release", "learnlock", "learn", "stats"}

VARIABLES
    pause,      \* model_flags.pause_actors_during_yield
    free,       \* free_queue: FIFO of slot indices
    full,       \* full_queue: FIFO of slot indices
    cells,      \* buffers: cells[m][t+1] is the rollout that wrote timestep
                \* t of slot m, 0 for none (torch.empty)
    apc,        \* per actor: position in act's loop
    aidx,       \* per actor: the slot index it holds (-1: none)
    at,         \* per actor: the next timestep it writes
    arun,       \* per actor: the rollout it is in (rollouts are numbered
                \* 1, 2, ... in the order the actors start them)
    nroll,      \* rollouts started so far
    asusp,      \* per actor: the process is suspended
    lpc,        \* per learner thread: position in batch_and_learn
    lstate,     \* per learner thread: thread_state.state
    lidx,       \* per learner thread: get_batch's indices, each with the
                \* phase (epoch) it was taken in
    lk,         \* per learner thread: progress of get_batch's loops
    lbatch,     \* per learner thread: the batch being stacked
    lput,       \* per learner thread: the indices it has put back on free
    lmid,       \* per learner thread: a stop was requested mid-iteration
    nlearn,     \* optimizer steps / weight copies into actor_model so far
    step,       \* train's step counter
    collected,  \* number of stats records in collected_stats
    last,       \* self.last_timestep_returned
    ret,        \* stats_to_return of the orchestrator's current round
    out,        \* what train() has given its caller: out.from is
                \* last_timestep_returned when train() began, out.steps the
                \* 'step' of every mapping yielded so far, out.deltas its
                \* 'step_delta' and out.counts the number of learner
                \* updates whose statistics it holds
    opc,        \* position of the train() generator
    oi,         \* loop index of the orchestrator's current for loop
    gen,        \* generation of self._learner_thread_states
    epoch,      \* 2 * (yields so far), + 1 while suspended at the yield
    flags,      \* model_flags as given to the constructor
    built,      \* what setup() has done: its outcome and the buffers made
    saved,      \* the instance save() is called on
    disk,       \* the files of output_path
    fresh,      \* the new instance load() is called on
    kpc,        \* how far the save / load round trip has come
    videos_to_log,  \* self._videos_to_log: FIFO of episode snapshots
    vpc,        \* actor 0: position in its video block
    episode,    \* actor 0: episodes completed so far
    observations_to_render,  \* actor 0: the frames it has kept (their number)
    video,      \* the snapshot the orchestrator took last (<<>>: none yet)
    unread,     \* the snapshots put since the orchestrator last took one
    loss_batch, \* compute_loss: the flags, the batch and the learner's outputs
                \* it works on
    vtrace_returns, \* compute_loss: what it passes to V-trace and gets back
                    \* (<<>>: not computed)
    thread_state,   \* wait_for: self.state of the LearnerThreadState
    wait,           \* wait_for: its arguments, time_passed, the polls made
                    \* and its position (<<>>: no call)
    actor,      \* act, one process followed with what it writes: its locals
                \* (<<>>: not followed)
    buffers,    \* buffers[key][m] and initial_agent_state_buffers[m], with
                \* what each timestep of slot m holds
    previous,   \* what the actor wrote in the rollout before this one
                \* (<<>>: there is none)
    blobs,      \* the checkpoint_data of every torch.save of save(), in order
    stepwork,   \* step += T * B in two steps: per learner thread the value
                \* of step it has read (None: it is not in the statement),
                \* and the statistics blocks finished so far (<<>>: the
                \* statement is taken as one step)
    loader,     \* ConfigurationLoader: the list of experiments, the base
                \* directory and the calls made so far (<<>>: not followed)
    collection  \* CollectionProcess: its two queues, where process_queue
                \* is, the messages sent and the results put so far (<<>>:
                \* not followed)

avars == <<cells, apc, aidx, at, arun, nroll, asusp>>
lvars == <<lpc, lstate, lidx, lk, lbatch, lput, lmid, nlearn, step, collected>>
ovars == <<last, ret, out, opc, oi, gen, epoch>>
\* The state outside a running train(): the pipeline leaves it alone.
telemetry == <<videos_to_log, vpc, episode, observations_to_render, video, unread>>
lossvars == <<loss_batch, vtrace_returns>>
\* The state of the parts followed one at a time.
waitvars == <<thread_state, wait>>
actvars == <<actor, buffers, previous>>
standalone == <<actvars, blobs, stepwork, loader, collection>>
side == <<telemetry, lossvars, waitvars, standalone>>
offline == <<flags, built, saved, disk, fresh, kpc, side>>
vars == <<offline, pause, free, full, avars, lvars, ovars>>

\* step += T * B
StepsPerUpdate == UnrollLength * flags.batch_size
MaxStep == MaxUpdates * StepsPerUpdate

\* -------------------------------------------------------------------- Init
\* The state when train() reaches its loop: actors started, the free queue
\* filled with 0..num_buffers-1 and the first learner threads started.
RECURSIVE Range(_, _)
Range(a, b) == IF a > b THEN <<>> ELSE <<a>> \o Range(a + 1, b)

\* Python's None: num_buffers left unset, no scheduler, no scheduler state.
None == -1
\* A file is the sequence of what it holds: a file that does not exist is
\* empty.
Absent == <<>>

\* A new instance: weights and optimizer state as constructed, no scheduler
\* (train makes it), last_timestep_returned = 0.
NewInstance(dis) ==
    [actor |-> 0, learner |-> 0, opt |-> 0, sched |-> None,
     pending |-> None, last |-> 0, disable_checkpoint |-> dis]

EmptyDisk == [model |-> Absent, backup |-> Absent, meta |-> Absent]

\* No checkpoint is being written or read.
NoRoundTrip ==
    /\ saved = NewInstance(FALSE)
    /\ disk = EmptyDisk
    /\ fresh = NewInstance(FALSE)
    /\ kpc = "idle"

\* Nothing has been put on the video queue and nothing taken from it.
NoTelemetry ==
    /\ videos_to_log = <<>>
    /\ vpc = "step"
    /\ episode = 0
    /\ observations_to_render = 0
    /\ video = <<>>
    /\ unread = <<>>

\* No loss is being computed.
NoLoss ==
    /\ loss_batch = <<>>
    /\ vtrace_returns = <<>>

\* No wait_for is followed on its own.
NoWait ==
    /\ thread_state = STARTING
    /\ wait = <<>>

\* No actor is followed with what it writes.
NoAct ==
    /\ actor = <<>>
    /\ buffers = <<>>
    /\ previous = <<>>

\* No save() is followed statement by statement.
NoSaves == blobs = <<>>

\* step += T * B is taken as one step.
NoStepWork == stepwork = <<>>

\* No experiment is being loaded.
NoLoader == loader = <<>>

\* No collection process is followed.
NoCollection == collection = <<>>

NoStandalone == NoAct /\ NoSaves /\ NoStepWork /\ NoLoader /\ NoCollection

NoSideWork == NoTelemetry /\ NoLoss /\ NoWait /\ NoStandalone

\* The flags the pipeline below runs with: setup() has accepted them.
Constructed ==
    /\ NoRoundTrip
    /\ NoSideWork
    /\ flags = [num_actors |-> NumActors, num_buffers |-> NumBuffers,
                batch_size |-> BatchSize, optimizer |-> "rmsprop",
                num_learner_threads |-> NumLearnerThreads]
    /\ built = [result |-> "ok", buffers |-> NumBuffers]

\* L is self.last_timestep_returned when train() is called: 0 for a new
\* instance, the step of the metadata file after load().
\* What train() sets up before its loop, for the flags of the instance.
Started(L) ==
    /\ free = Range(0, flags.num_buffers - 1)
    /\ full = <<>>
    /\ cells = [m \in Slots |-> [t \in 1..(UnrollLength + 1) |-> 0]]
    /\ apc = [a \in Actors |-> IF a <= flags.num_actors THEN "get" ELSE "absent"]
    /\ aidx = [a \in Actors |-> -1]
    /\ at = [a \in Actors |-> 0]
    /\ arun = [a \in Actors |-> 0]
    /\ nroll = 0
    /\ asusp = [a \in Actors |-> FALSE]
    /\ lpc = [t \in Threads |->
                IF t[1] = 0 /\ t[2] <= flags.num_learner_threads
                THEN "check" ELSE "unborn"]
    /\ lstate = [t \in Threads |-> STARTING]
    /\ lidx = [t \in Threads |-> <<>>]
    /\ lk = [t \in Threads |-> 0]
    /\ lbatch = [t \in Threads |-> <<>>]
    /\ lput = [t \in Threads |-> <<>>]
    /\ lmid = [t \in Threads |-> FALSE]
    /\ nlearn = 0
    /\ step = L
    /\ collected = 0
    /\ last = L
    /\ ret = [count |-> 0, step |-> 0, step_delta |-> 0]
    /\ out = [from |-> L, steps |-> <<>>, deltas |-> <<>>, counts |-> <<>>]
    /\ opc = "sleep"
    /\ oi = 0
    /\ gen = 0
    /\ epoch = 0

InitFrom(L) ==
    /\ Constructed
    /\ pause \in BOOLEAN
    /\ Started(L)

Init == InitFrom(0)

\* --------------------------------------------------------------------- act
\* index = free_queue.get(): blocks while the queue is empty. A new rollout
\* begins.
ActGet(a) ==
    /\ apc[a] = "get" /\ ~asusp[a]
    /\ nroll < MaxRollouts
    /\ free # <<>>
    /\ aidx' = [aidx EXCEPT ![a] = Head(free)]
    /\ free' = Tail(free)
    /\ apc' = [apc EXCEPT ![a] = "write"]
    /\ at' = [at EXCEPT ![a] = 0]
    /\ nroll' = nroll + 1
    /\ arun' = [arun EXCEPT ![a] = nroll + 1]
    /\ UNCHANGED <<offline, pause, full, cells, asusp, lvars, ovars>>

\* buffers[key][index][t, ...] = ...: timestep 0 is the end of the previous
\* rollout (with the recurrent state), timesteps 1..unroll_length are new.
ActWrite(a) ==
    /\ apc[a] = "write" /\ ~asusp[a]
    /\ cells' = [cells EXCEPT ![aidx[a]][at[a] + 1] = arun[a]]
    /\ at' = [at EXCEPT ![a] = at[a] + 1]
    /\ apc' = [apc EXCEPT ![a] = IF at[a] = UnrollLength THEN "put" ELSE "write"]
    /\ UNCHANGED <<offline, pause, free, full, aidx, arun, nroll, asusp, lvars, ovars>>

\* full_queue.put(index)
ActPut(a) ==
    /\ apc[a] = "put" /\ ~asusp[a]
    /\ full' = Append(full, aidx[a])
    /\ aidx' = [aidx EXCEPT ![a] = -1]
    /\ apc' = [apc EXCEPT ![a] = "get"]
    /\ at' = [at EXCEPT ![a] = 0]
    /\ arun' = [arun EXCEPT ![a] = 0]
    /\ UNCHANGED <<offline, pause, free, cells, nroll, asusp, lvars, ovars>>

Act(a) == ActGet(a) \/ ActWrite(a) \/ ActPut(a)

\* --------------------------------------------------------- batch_and_learn
\* The batch lock and the learn lock are created by create_learn_threads, one
\* pair per generation of threads: a lock is held by the thread of that
\* generation that is inside the with block.
BatchLockHeld(g) == \E u \in Threads : u[1] = g /\ lpc[u] = "dequeue"
LearnLockHeld(g) == \E u \in Threads : u[1] = g /\ lpc[u] = "learn"

InFlight == Cardinality({u \in Threads : lpc[u] \in MidIter})

\* Top of the loop, under thread_state.lock: a requested stop ends the
\* thread, anything else becomes RUNNING and starts an iteration.
LCheck(t) ==
    /\ lpc[t] = "check"
    /\ IF lstate[t] = STOP_REQUESTED
       THEN /\ lstate' = [lstate EXCEPT ![t] = STOPPED]
            /\ lpc' = [lpc EXCEPT ![t] = "done"]
       ELSE /\ step + (InFlight + 1) * StepsPerUpdate <= MaxStep
            /\ lstate' = [lstate EXCEPT ![t] = RUNNING]
            /\ lpc' = [lpc EXCEPT ![t] = "lock"]
    /\ UNCHANGED <<offline, pause, free, full, avars, lidx, lk, lbatch, lput, lmid,
                   nlearn, step, collected, ovars>>

\* get_batch: with lock
LLock(t) ==
    /\ lpc[t] = "lock"
    /\ ~BatchLockHeld(t[1])
    /\ lpc' = [lpc EXCEPT ![t] = "dequeue"]
    /\ UNCHANGED <<offline, pause, free, full, avars, lstate, lidx, lk, lbatch, lput,
                   lmid, nlearn, step, collected, ovars>>

\* (mutant) get_batch gives up as soon as a stop is requested, and the thread
\* ends without finishing its iteration.
LDequeueAbort(t) ==
    /\ lpc[t] = "dequeue"
    /\ IF lstate[t] = STOP_REQUESTED
       THEN /\ lstate' = [lstate EXCEPT ![t] = STOPPED]
            /\ lpc' = [lpc EXCEPT ![t] = "done"]
            /\ UNCHANGED <<full, lidx>>
       ELSE /\ full # <<>>
            /\ lidx' = [lidx EXCEPT ![t] = Append(@, [m |-> Head(full), e |-> epoch])]
            /\ full' = Tail(full)
            /\ lpc' = [lpc EXCEPT ![t] =
                         IF Len(lidx[t]) + 1 = flags.batch_size THEN "copy" ELSE "dequeue"]
            /\ UNCHANGED lstate
    /\ UNCHANGED <<offline, pause, free, avars, lk, lbatch, lput, lmid, nlearn,
                   step, collected, ovars>>

\* get_batch: one full_queue.get() of the list comprehension; the lock is
\* released with the batch_size-th.
LDequeue(t) ==
    /\ lpc[t] = "dequeue"
    /\ full # <<>>
    /\ lidx' = [lidx EXCEPT ![t] = Append(@, [m |-> Head(full), e |-> epoch])]
    /\ full' = Tail(full)
    /\ lpc' = [lpc EXCEPT ![t] =
                 IF Len(lidx[t]) + 1 = flags.batch_size THEN "copy" ELSE "dequeue"]
    /\ UNCHANGED <<offline, pause, free, avars, lstate, lk, lbatch, lput, lmid, nlearn,
                   step, collected, ovars>>

\* get_batch: torch.stack / torch.cat copy the slots of indices, in order.
LCopy(t) ==
    /\ lpc[t] = "copy"
    /\ LET m == lidx[t][lk[t] + 1].m
       IN lbatch' = [lbatch EXCEPT ![t] = Append(@, [m |-> m, data |-> cells[m]])]
    /\ lk' = [lk EXCEPT ![t] = IF lk[t] + 1 = flags.batch_size THEN 0 ELSE lk[t] + 1]
    /\ lpc' = [lpc EXCEPT ![t] =
                 IF lk[t] + 1 = flags.batch_size THEN "release" ELSE "copy"]
    /\ UNCHANGED <<offline, pause, free, full, avars, lstate, lidx, lput, lmid, nlearn,
                   step, collected, ovars>>

\* (mutant) get_batch puts only the first of its indices back.
LReleaseFirstOnly(t) ==
    /\ lpc[t] = "release"
    /\ LET m == lidx[t][1].m
       IN /\ free' = Append(free, m)
          /\ lput' = [lput EXCEPT ![t] = Append(@, m)]
    /\ lk' = [lk EXCEPT ![t] = 0]
    /\ lpc' = [lpc EXCEPT ![t] = "learnlock"]
    /\ UNCHANGED <<offline, pause, full, avars, lstate, lidx, lbatch, lmid, nlearn,
                   step, collected, ovars>>

\* get_batch: for m in indices: free_queue.put(m)
LRelease(t) ==
    /\ lpc[t] = "release"
    /\ LET m == lidx[t][lk[t] + 1].m
       IN /\ free' = Append(free, m)
          /\ lput' = [lput EXCEPT ![t] = Append(@, m)]
    /\ lk' = [lk EXCEPT ![t] = IF lk[t] + 1 = flags.batch_size THEN 0 ELSE lk[t] + 1]
    /\ lpc' = [lpc EXCEPT ![t] =
                 IF lk[t] + 1 = flags.batch_size THEN "learnlock" ELSE "release"]
    /\ UNCHANGED <<offline, pause, full, avars, lstate, lidx, lbatch, lmid, nlearn,
                   step, collected, ovars>>

\* (mutant) learn entered without taking the lock.
LLearnNoLock(t) ==
    /\ lpc[t] = "learnlock"
    /\ lpc' = [lpc EXCEPT ![t] = "learn"]
    /\ lidx' = [lidx EXCEPT ![t] = <<>>]
    /\ lbatch' = [lbatch EXCEPT ![t] = <<>>]
    /\ lput' = [lput EXCEPT ![t] = <<>>]
    /\ UNCHANGED <<offline, pause, free, full, avars, lstate, lk, lmid, nlearn, step,
                   collected, ovars>>

\* learn: with lock
LLearnLock(t) ==
    /\ lpc[t] = "learnlock"
    /\ ~LearnLockHeld(t[1])
    /\ lpc' = [lpc EXCEPT ![t] = "learn"]
    /\ lidx' = [lidx EXCEPT ![t] = <<>>]
    /\ lbatch' = [lbatch EXCEPT ![t] = <<>>]
    /\ lput' = [lput EXCEPT ![t] = <<>>]
    /\ UNCHANGED <<offline, pause, free, full, avars, lstate, lk, lmid, nlearn, step,
                   collected, ovars>>

\* learn: optimizer.step() and actor_model.load_state_dict(...), then the
\* lock is released.
LLearn(t) ==
    /\ lpc[t] = "learn"
    /\ nlearn' = nlearn + 1
    /\ lpc' = [lpc EXCEPT ![t] = "stats"]
    /\ UNCHANGED <<offline, pause, free, full, avars, lstate, lidx, lk, lbatch, lput,
                   lmid, step, collected, ovars>>

\* with lock (stats_lock): step += T * B and the stats are collected. The
\* orchestrator takes the same lock to copy and clear collected_stats.
LStats(t) ==
    /\ lpc[t] = "stats"
    /\ step' = step + StepsPerUpdate
    /\ collected' = collected + 1
    /\ lpc' = [lpc EXCEPT ![t] = "check"]
    /\ UNCHANGED <<offline, pause, free, full, avars, lstate, lidx, lk, lbatch, lput,
                   lmid, nlearn, ovars>>

Learn(t) ==
    \/ LCheck(t) \/ LLock(t) \/ LDequeue(t) \/ LCopy(t) \/ LRelease(t)
    \/ LLearnLock(t) \/ LLearn(t) \/ LStats(t)

\* ------------------------------------------------------------------- train
\* One round of the orchestrator's loop up to the barrier: with stats_lock the
\* collected stats are copied and cleared; stats_to_return gets step and
\* step_delta; if self.last_timestep_returned != step the barrier begins,
\* otherwise the loop starts over.
OAggregate ==
    /\ opc = "sleep"
    /\ ret' = [count |-> collected, step |-> step, step_delta |-> step - last]
    /\ collected' = 0
    /\ IF last # step
       THEN /\ epoch < 2 * MaxYields
            /\ last' = step
            /\ opc' = "stop"
            /\ oi' = 1
       ELSE UNCHANGED <<last, opc, oi>>
    /\ UNCHANGED <<offline, pause, free, full, avars, lpc, lstate, lidx, lk, lbatch,
                   lput, lmid, nlearn, step, out, gen, epoch>>

IsAlive(t) == lpc[t] \notin {"unborn", "done", "crashed"}

\* Where the orchestrator goes after the learner oi of the barrier's loop.
AfterLearner ==
    IF oi < flags.num_learner_threads
    THEN /\ opc' = "stop"
         /\ oi' = oi + 1
    ELSE /\ opc' = IF pause THEN "suspend" ELSE "drainfree"
         /\ oi' = 1

\* with thread_state.lock: a thread that is not STOPPED and is alive is asked
\* to stop, and then waited for.
OStop ==
    /\ opc = "stop"
    /\ LET t == <<gen, oi>>
       IN IF lstate[t] # STOPPED /\ IsAlive(t)
          THEN /\ lstate' = [lstate EXCEPT ![t] = STOP_REQUESTED]
               /\ lmid' = [lmid EXCEPT ![t] = lpc[t] \in MidIter]
               /\ opc' = "wait"
               /\ UNCHANGED oi
          ELSE /\ AfterLearner
               /\ UNCHANGED <<lstate, lmid>>
    /\ UNCHANGED <<offline, pause, free, full, avars, lpc, lidx, lk, lbatch, lput,
                   nlearn, step, collected, last, ret, out, gen, epoch>>

\* wait_for([STOPPED], timeout=30): returns when the state is STOPPED ...
OWaitStopped ==
    /\ opc = "wait"
    /\ lstate[<<gen, oi>>] = STOPPED
    /\ AfterLearner
    /\ UNCHANGED <<offline, pause, free, full, avars, lvars, last, ret, out, gen, epoch>>

\* ... or when the timeout has passed, whatever the thread is doing.
OWaitTimeout ==
    /\ opc = "wait"
    /\ lstate[<<gen, oi>>] # STOPPED
    /\ AfterLearner
    /\ UNCHANGED <<offline, pause, free, full, avars, lvars, last, ret, out, gen, epoch>>

\* psutil.Process(actor.pid).suspend(), one actor after the other
OSuspend ==
    /\ opc = "suspend"
    /\ asusp' = [asusp EXCEPT ![oi] = TRUE]
    /\ IF oi < flags.num_actors
       THEN /\ oi' = oi + 1
            /\ UNCHANGED opc
       ELSE /\ opc' = "drainfree"
            /\ UNCHANGED oi
    /\ UNCHANGED <<offline, pause, free, full, cells, apc, aidx, at, arun, nroll, lvars,
                   last, ret, out,
                   gen, epoch>>

\* while not free_queue.empty(): free_queue.get(block=False)
ODrainFree ==
    /\ opc = "drainfree"
    /\ IF free # <<>>
       THEN /\ free' = Tail(free)
            /\ UNCHANGED opc
       ELSE /\ opc' = "drainfull"
            /\ UNCHANGED free
    /\ UNCHANGED <<offline, pause, full, avars, lvars, last, ret, out, oi, gen, epoch>>

\* while not full_queue.empty(): full_queue.get(block=False); then
\* yield stats_to_return suspends the generator.
ODrainFull ==
    /\ opc = "drainfull"
    /\ IF full # <<>>
       THEN /\ full' = Tail(full)
            /\ UNCHANGED <<opc, epoch, out>>
       ELSE /\ opc' = "yielded"
            /\ epoch' = epoch + 1
            /\ out' = [out EXCEPT !.steps = Append(@, ret.step),
                                   !.deltas = Append(@, ret.step_delta),
                                   !.counts = Append(@, ret.count)]
            /\ UNCHANGED full
    /\ UNCHANGED <<offline, pause, free, avars, lvars, last, ret, oi, gen>>

\* The caller asks for the next result: the generator resumes after the yield.
OResume ==
    /\ opc = "yielded"
    /\ epoch' = epoch + 1
    /\ opc' = IF pause THEN "resume" ELSE "create"
    /\ oi' = 1
    /\ UNCHANGED <<offline, pause, free, full, avars, lvars, last, ret, out, gen>>

\* resume_actor_processes, one actor after the other: actor_process.resume();
\* an actor whose process is gone, or is not running, sleeping or in disk
\* sleep, is killed if still there and replaced by a new process running act
\* with the same queues, buffers and actor model (a dead process stands for
\* both cases).
OResumeActor ==
    /\ opc = "resume"
    /\ asusp' = [asusp EXCEPT ![oi] = FALSE]
    /\ IF apc[oi] = "dead"
       THEN /\ apc' = [apc EXCEPT ![oi] = "get"]
            /\ aidx' = [aidx EXCEPT ![oi] = -1]
            /\ at' = [at EXCEPT ![oi] = 0]
            /\ arun' = [arun EXCEPT ![oi] = 0]
       ELSE UNCHANGED <<apc, aidx, at, arun>>
    /\ IF oi < flags.num_actors
       THEN /\ oi' = oi + 1
            /\ UNCHANGED opc
       ELSE /\ opc' = "create"
            /\ UNCHANGED oi
    /\ UNCHANGED <<offline, pause, free, full, cells, nroll, lvars, last, ret, out,
                   gen, epoch>>

\* (mutant) the orchestrator starts the threads of the generation it has
\* again, on their old thread states, instead of making new ones.
OCreateReuse ==
    /\ opc = "create"
    /\ gen + 1 \in Gens
    /\ lpc' = [t \in Threads |->
                 IF t[1] = gen /\ lpc[t] \in {"done", "crashed"}
                 THEN "check" ELSE lpc[t]]
    /\ opc' = "refill"
    /\ oi' = 0
    /\ UNCHANGED <<offline, pause, free, full, avars, lstate, lidx, lk, lbatch, lput,
                   lmid, nlearn, step, collected, last, ret, out, gen, epoch>>

\* create_learn_threads: new thread states (STARTING), new locks, the threads
\* started.
OCreate ==
    /\ opc = "create"
    /\ gen + 1 \in Gens
    /\ gen' = gen + 1
    /\ lpc' = [t \in Threads |->
                 IF t[1] = gen + 1 /\ t[2] <= flags.num_learner_threads
                 THEN "check" ELSE lpc[t]]
    /\ opc' = "refill"
    /\ oi' = 0
    /\ UNCHANGED <<offline, pause, free, full, avars, lstate, lidx, lk, lbatch, lput,
                   lmid, nlearn, step, collected, last, ret, out, epoch>>

\* for m in range(num_buffers): free_queue.put(m)
ORefill ==
    /\ opc = "refill"
    /\ free' = Append(free, oi)
    /\ IF oi < flags.num_buffers - 1
       THEN /\ oi' = oi + 1
            /\ UNCHANGED opc
       ELSE /\ opc' = "sleep"
            /\ oi' = 0
    /\ UNCHANGED <<offline, pause, full, avars, lvars, last, ret, out, gen, epoch>>

Orchestrate ==
    \/ OAggregate
    \/ OStop \/ OWaitStopped \/ OWaitTimeout
    \/ OSuspend \/ ODrainFree \/ ODrainFull
    \/ OResume \/ OResumeActor \/ OCreate \/ ORefill

Next ==
    \/ \E a \in Actors : Act(a)
    \/ \E t \in Threads : Learn(t)
    \/ Orchestrate

Spec == Init /\ [][Next]_vars

\* The pipeline run with pause_actors_during_yield set.
InitPaused == Init /\ pause

SpecPaused == InitPaused /\ [][Next]_vars

\* The same, in the runs where every wait_for of the barrier returns because
\* the thread has reached STOPPED (no wait times out).
NextAcked ==
    \/ \E a \in Actors : Act(a)
    \/ \E t \in Threads : Learn(t)
    \/ OAggregate
    \/ OStop \/ OWaitStopped
    \/ OSuspend \/ ODrainFree \/ ODrainFull
    \/ OResume \/ OResumeActor \/ OCreate \/ ORefill

SpecAcked == InitPaused /\ [][NextAcked]_vars

\* The same with MaxLearnerThreads learner threads in every generation.
InitLearners ==
    /\ NoRoundTrip
    /\ NoSideWork
    /\ flags = [num_actors |-> NumActors, num_buffers |-> NumBuffers,
                batch_size |-> BatchSize, optimizer |-> "rmsprop",
                num_learner_threads |-> MaxLearnerThreads]
    /\ built = [result |-> "ok", buffers |-> NumBuffers]
    /\ pause = TRUE
    /\ Started(0)

SpecLearners == InitLearners /\ [][NextAcked]_vars

\* --------------------------------------- train: the round, statement by statement
\* OAggregate takes the statements of a round as one step. The learner threads
\* run between them: the orchestrator holds stats_lock only for the copy of
\* collected_stats, and reads step four times without it.
\* with stats_lock: stats_to_return = deepcopy(collected_stats); clear()
OSnapshot ==
    /\ opc = "sleep"
    /\ ret' = [ret EXCEPT !.count = collected]
    /\ collected' = 0
    /\ opc' = "readstep"
    /\ UNCHANGED <<offline, pause, free, full, avars, lpc, lstate, lidx, lk, lbatch,
                   lput, lmid, nlearn, step, last, out, oi, gen, epoch>>

\* stats_to_return["step"] = step
OReadStep ==
    /\ opc = "readstep"
    /\ ret' = [ret EXCEPT !.step = step]
    /\ opc' = "readdelta"
    /\ UNCHANGED <<offline, pause, free, full, avars, lvars, last, out, oi, gen, epoch>>

\* stats_to_return["step_delta"] = step - self.last_timestep_returned
OReadDelta ==
    /\ opc = "readdelta"
    /\ ret' = [ret EXCEPT !.step_delta = step - last]
    /\ opc' = "test"
    /\ UNCHANGED <<offline, pause, free, full, avars, lvars, last, out, oi, gen, epoch>>

\* if self.last_timestep_returned != step
OTest ==
    /\ opc = "test"
    /\ IF last # step
       THEN /\ epoch < 2 * MaxYields
            /\ opc' = "assign"
       ELSE opc' = "sleep"
    /\ UNCHANGED <<offline, pause, free, full, avars, lvars, last, ret, out, oi, gen,
                   epoch>>

\* self.last_timestep_returned = step, and the barrier begins
OAssign ==
    /\ opc = "assign"
    /\ last' = step
    /\ opc' = "stop"
    /\ oi' = 1
    /\ UNCHANGED <<offline, pause, free, full, avars, lvars, ret, out, gen, epoch>>

\* The keys of the stats dictionary learn returns.
StatKeys ==
    {"pg_loss", "baseline_loss", "entropy_loss", "episode_returns",
     "mean_episode_return", "total_loss", "total_norm"}
\* key.endswith("loss") or key == "total_norm"
Counted == {"pg_loss", "baseline_loss", "entropy_loss", "total_loss", "total_norm"}
\* f"{key}_count"
CountKey(k) ==
    CASE k = "pg_loss" -> "pg_loss_count"
      [] k = "baseline_loss" -> "baseline_loss_count"
      [] k = "entropy_loss" -> "entropy_loss_count"
      [] k = "total_loss" -> "total_loss_count"
      [] k = "total_norm" -> "total_norm_count"

\* The keys of stats_to_return: those of the collected stats (there are none
\* when no learner has reported since the last copy), a count for each
\* counted key among them, and the three the orchestrator sets itself.
KeysOf(r) ==
    LET got == IF r.count > 0 THEN StatKeys ELSE {}
    IN got \cup {CountKey(k) : k \in got \cap Counted}
           \cup {"mean_episode_return", "step", "step_delta"}

\* The values load() restores last_timestep_returned to.
MaxLoaded == 2

\* train() called on an instance that load() may have restored, with
\* pause_actors_during_yield set.
InitLoaded == \E L \in {0, MaxLoaded} : InitFrom(L) /\ pause

\* The pipeline with the round taken statement by statement, in the runs where
\* no wait_for of the barrier times out.
NextReads ==
    \/ \E a \in Actors : Act(a)
    \/ \E t \in Threads : Learn(t)
    \/ OSnapshot \/ OReadStep \/ OReadDelta \/ OTest \/ OAssign
    \/ OStop \/ OWaitStopped
    \/ OSuspend \/ ODrainFree \/ ODrainFull
    \/ OResume \/ OResumeActor \/ OCreate \/ ORefill

SpecReads == InitLoaded /\ [][NextReads]_vars

\* ------------------------------------------------------ crashes and shutdown
\* act: an exception in the rollout (the model, env.step, a buffer write) is
\* logged and raised again, and the process ends; the index it held goes with
\* it.
ActCrash(a) ==
    /\ apc[a] = "write" /\ ~asusp[a]
    /\ apc' = [apc EXCEPT ![a] = "dead"]
    /\ aidx' = [aidx EXCEPT ![a] = -1]
    /\ at' = [at EXCEPT ![a] = 0]
    /\ arun' = [arun EXCEPT ![a] = 0]
    /\ UNCHANGED <<offline, pause, free, full, cells, nroll, asusp, lvars, ovars>>

\* batch_and_learn: an exception while get_batch stacks its slots (it still
\* holds their indices) or inside learn is logged and raised again, and the
\* thread ends; its locks are released by their with blocks, its thread state
\* is left as it was.
LCrash(t) ==
    /\ lpc[t] \in {"copy", "learn"}
    /\ lpc' = [lpc EXCEPT ![t] = "crashed"]
    /\ lidx' = [lidx EXCEPT ![t] = <<>>]
    /\ lk' = [lk EXCEPT ![t] = 0]
    /\ lbatch' = [lbatch EXCEPT ![t] = <<>>]
    /\ lput' = [lput EXCEPT ![t] = <<>>]
    /\ UNCHANGED <<offline, pause, free, full, avars, lstate, lmid, nlearn, step,
                   collected, ovars>>

\* train's finally block, reached by a KeyboardInterrupt anywhere in the loop
\* or by the caller closing the generator at the yield: cleanup() writes
\* STOP_REQUESTED into every thread state of self._learner_thread_states and
\* kills every actor process.
OCleanup ==
    /\ opc # "ended"
    /\ lstate' = [t \in Threads |->
                    IF t[1] = gen /\ t[2] <= flags.num_learner_threads
                    THEN STOP_REQUESTED ELSE lstate[t]]
    /\ apc' = [a \in Actors |-> IF apc[a] = "absent" THEN "absent" ELSE "dead"]
    /\ aidx' = [a \in Actors |-> -1]
    /\ at' = [a \in Actors |-> 0]
    /\ arun' = [a \in Actors |-> 0]
    /\ asusp' = [a \in Actors |-> FALSE]
    /\ opc' = "ended"
    /\ oi' = 0
    /\ UNCHANGED <<offline, pause, free, full, cells, nroll, lpc, lidx, lk, lbatch,
                   lput, lmid, nlearn, step, collected, last, ret, out, gen, epoch>>

\* The pipeline with a shutdown at any moment.
NextInterrupted == Next \/ OCleanup

SpecInterrupted == InitPaused /\ [][NextInterrupted]_vars

\* The pipeline with workers that can crash, in the runs where no wait_for of
\* the barrier times out.
NextCrash ==
    \/ NextAcked
    \/ \E a \in Actors : ActCrash(a)
    \/ \E t \in Threads : LCrash(t)

SpecCrash == Init /\ [][NextCrash]_vars

\* Fair scheduling: every actor process, every learner thread and the
\* orchestrator (with the caller that asks it for the next result) keeps
\* taking steps while it can. Nothing obliges a worker to crash.
Fairness ==
    /\ \A a \in Actors : WF_vars(Act(a))
    /\ \A t \in Threads : WF_vars(Learn(t))
    /\ WF_vars(Orchestrate)

SpecFair == InitPaused /\ [][Next]_vars /\ Fairness

\* The pipeline with a shutdown at any moment, and fair scheduling of
\* everything that is still running.
SpecShutdown == InitPaused /\ [][NextInterrupted]_vars /\ Fairness

\* ------------------------------------------- the top of the loop, in two steps
\* with thread_state.lock: the test of thread_state.state. A requested stop
\* ends the thread; otherwise the thread goes on, still holding the lock, to
\* the assignment of RUNNING.
LTest(t) ==
    /\ lpc[t] = "check"
    /\ IF lstate[t] = STOP_REQUESTED
       THEN /\ lstate' = [lstate EXCEPT ![t] = STOPPED]
            /\ lpc' = [lpc EXCEPT ![t] = "done"]
       ELSE /\ step + (InFlight + 1) * StepsPerUpdate <= MaxStep
            /\ lpc' = [lpc EXCEPT ![t] = "run"]
            /\ UNCHANGED lstate
    /\ UNCHANGED <<offline, pause, free, full, avars, lidx, lk, lbatch, lput, lmid,
                   nlearn, step, collected, ovars>>

\* thread_state.state = LearnerThreadState.RUNNING, and the lock is released.
LRun(t) ==
    /\ lpc[t] = "run"
    /\ lstate' = [lstate EXCEPT ![t] = RUNNING]
    /\ lpc' = [lpc EXCEPT ![t] = "lock"]
    /\ UNCHANGED <<offline, pause, free, full, avars, lidx, lk, lbatch, lput, lmid,
                   nlearn, step, collected, ovars>>

\* The barrier's with thread_state.lock waits while the thread holds the lock.
OStopUnderLock ==
    /\ opc = "stop"
    /\ lpc[<<gen, oi>>] # "run"
    /\ OStop

\* The pipeline with a shutdown at any moment, the top of the learner's loop
\* taken statement by statement.
NextStopRace ==
    \/ \E a \in Actors : Act(a)
    \/ \E t \in Threads :
           \/ LTest(t) \/ LRun(t) \/ LLock(t) \/ LDequeue(t) \/ LCopy(t)
           \/ LRelease(t) \/ LLearnLock(t) \/ LLearn(t) \/ LStats(t)
    \/ OAggregate
    \/ OStopUnderLock \/ OWaitStopped \/ OWaitTimeout
    \/ OSuspend \/ ODrainFree \/ ODrainFull
    \/ OResume \/ OResumeActor \/ OCreate \/ ORefill
    \/ OCleanup

SpecStopRace == InitPaused /\ [][NextStopRace]_vars

\* --------------------------------------------------- step += T * B, in two steps
\* train() called on an instance that load() may have restored, with
\* MaxLearnerThreads learner threads in every generation.
InitStep ==
    /\ NoRoundTrip
    /\ NoTelemetry /\ NoLoss /\ NoWait /\ NoAct /\ NoSaves /\ NoLoader
    /\ NoCollection
    /\ stepwork = [read |-> [t \in Threads |-> None], finished |-> 0]
    /\ flags = [num_actors |-> NumActors, num_buffers |-> NumBuffers,
                batch_size |-> BatchSize, optimizer |-> "rmsprop",
                num_learner_threads |-> MaxLearnerThreads]
    /\ built = [result |-> "ok", buffers |-> NumBuffers]
    /\ pause = TRUE
    /\ \E L \in {0, MaxLoaded} : Started(L)

notstep == <<flags, built, saved, disk, fresh, kpc, telemetry, lossvars,
             waitvars, actvars, blobs, loader, collection, pause, free, full,
             avars, lstate, lidx,
             lk, lbatch, lput, lmid, nlearn, ovars>>

\* (mutant) a statistics block that does not take the lock.
LStatsReadNoLock(t) ==
    /\ lpc[t] = "stats"
    /\ stepwork.read[t] = None
    /\ stepwork' = [stepwork EXCEPT !.read[t] = step]
    /\ UNCHANGED <<notstep, lpc, step, collected>>

\* with lock (stats_lock, the one lock train makes for all generations), and
\* the read of step in step += T * B.
LStatsRead(t) ==
    /\ lpc[t] = "stats"
    /\ stepwork.read[t] = None
    /\ \A u \in Threads : stepwork.read[u] = None
    /\ stepwork' = [stepwork EXCEPT !.read[t] = step]
    /\ UNCHANGED <<notstep, lpc, step, collected>>

\* The assignment of step += T * B and the rest of the block: the stats are
\* collected and the lock is released.
LStatsWrite(t) ==
    /\ lpc[t] = "stats"
    /\ stepwork.read[t] # None
    /\ step' = stepwork.read[t] + StepsPerUpdate
    /\ collected' = collected + 1
    /\ stepwork' = [stepwork EXCEPT !.read[t] = None, !.finished = @ + 1]
    /\ lpc' = [lpc EXCEPT ![t] = "check"]
    /\ UNCHANGED notstep

\* The pipeline with several learner threads and the statistics block taken
\* statement by statement, in the runs where no wait_for of the barrier times
\* out.
NextStep ==
    \/ \E a \in Actors : Act(a)
    \/ \E t \in Threads :
           \/ LCheck(t) \/ LLock(t) \/ LDequeue(t) \/ LCopy(t) \/ LRelease(t)
           \/ LLearnLock(t) \/ LLearn(t) \/ LStatsRead(t) \/ LStatsWrite(t)
    \/ OAggregate
    \/ OStop \/ OWaitStopped
    \/ OSuspend \/ ODrainFree \/ ODrainFull
    \/ OResume \/ OResumeActor \/ OCreate \/ ORefill

SpecStep == InitStep /\ [][NextStep]_vars

\* The pipeline with workers that can crash and waits that can time out.
NextFaulty == NextCrash \/ OWaitTimeout

SpecFaulty == InitPaused /\ [][NextFaulty]_vars /\ Fairness

\* ------------------------------------------------------------------- setup
\* The values a numeric flag is given; num_buffers may also be left unset.
MaxFlag == 3
Optimizers == {"rmsprop", "adam", "sgd"}
FlagSets ==
    [num_actors : 0..MaxFlag, num_buffers : {None} \cup (0..MaxFlag),
     batch_size : 0..MaxFlag, optimizer : Optimizers,
     num_learner_threads : {NumLearnerThreads}]

Max(x, y) == IF x >= y THEN x ELSE y

\* if model_flags.num_buffers is None: model_flags.num_buffers = max(...)
WithDefault(f) ==
    IF f.num_buffers = None
    THEN [f EXCEPT !.num_buffers = Max(2 * f.num_actors, f.batch_size)]
    ELSE f

\* (mutant) the first test lets num_actors = num_buffers through.
setupLenient(f) ==
    LET g == WithDefault(f)
    IN IF g.num_actors > g.num_buffers
       THEN [result |-> "ValueError", buffers |-> 0]
       ELSE IF g.num_buffers < g.batch_size
       THEN [result |-> "ValueError", buffers |-> 0]
       ELSE IF g.optimizer \in {"rmsprop", "adam"}
       THEN [result |-> "ok", buffers |-> g.num_buffers]
       ELSE [result |-> "ValueError", buffers |-> g.num_buffers]

\* setup: the two tests on the flags, then create_buffers allocates
\* num_buffers slots, then the optimizer is made (any name but rmsprop and
\* adam raises ValueError, after the buffers exist).
setup(f) ==
    LET g == WithDefault(f)
    IN IF g.num_actors >= g.num_buffers
       THEN [result |-> "ValueError", buffers |-> 0]
       ELSE IF g.num_buffers < g.batch_size
       THEN [result |-> "ValueError", buffers |-> 0]
       ELSE IF g.optimizer \in {"rmsprop", "adam"}
       THEN [result |-> "ok", buffers |-> g.num_buffers]
       ELSE [result |-> "ValueError", buffers |-> g.num_buffers]

\* Nothing of the pipeline exists yet: no process, no thread, empty queues.
Unstarted ==
    /\ pause = FALSE
    /\ free = <<>>
    /\ full = <<>>
    /\ cells = [m \in Slots |-> [t \in 1..(UnrollLength + 1) |-> 0]]
    /\ apc = [a \in Actors |-> "unborn"]
    /\ aidx = [a \in Actors |-> -1]
    /\ at = [a \in Actors |-> 0]
    /\ arun = [a \in Actors |-> 0]
    /\ nroll = 0
    /\ asusp = [a \in Actors |-> FALSE]
    /\ lpc = [t \in Threads |-> "unborn"]
    /\ lstate = [t \in Threads |-> STARTING]
    /\ lidx = [t \in Threads |-> <<>>]
    /\ lk = [t \in Threads |-> 0]
    /\ lbatch = [t \in Threads |-> <<>>]
    /\ lput = [t \in Threads |-> <<>>]
    /\ lmid = [t \in Threads |-> FALSE]
    /\ nlearn = 0
    /\ step = 0
    /\ collected = 0
    /\ last = 0
    /\ ret = [count |-> 0, step |-> 0, step_delta |-> 0]
    /\ out = [from |-> 0, steps |-> <<>>, deltas |-> <<>>, counts |-> <<>>]
    /\ opc = "unborn"
    /\ oi = 0
    /\ gen = 0
    /\ epoch = 0

NoWorkerStarted ==
    /\ \A a \in Actors : apc[a] = "unborn"
    /\ \A t \in Threads : lpc[t] = "unborn"

\* Monobeast(model_flags, ...): the constructor calls setup once.
InitSetup ==
    /\ NoRoundTrip
    /\ NoSideWork
    /\ flags \in FlagSets
    /\ built = [result |-> "none", buffers |-> 0]
    /\ Unstarted

Setup ==
    /\ built.result = "none"
    /\ built' = setup(flags)
    /\ flags' = WithDefault(flags)
    /\ UNCHANGED <<saved, disk, fresh, kpc, side, pause, free, full, avars,
                   lvars, ovars>>

NextSetup == Setup

SpecSetup == InitSetup /\ [][NextSetup]_vars

\* The relations setup tests, on the flags as setup leaves them.
PoolFits == flags.num_actors < flags.num_buffers /\ flags.num_buffers >= flags.batch_size

\* ------------------------------------------------------------- save and load
\* The values weights, optimizer state and scheduler state are drawn from.
MaxWeight == 1
Weights == 0..MaxWeight

\* The instances save() may be called on: any weights in the actor and the
\* learner model, any optimizer state, a scheduler or none, any
\* last_timestep_returned, checkpoints enabled or disabled.
Instances ==
    [actor : Weights, learner : Weights, opt : Weights,
     sched : {None} \cup Weights, pending : {None},
     last : 0..MaxLoaded, disable_checkpoint : BOOLEAN]

\* checkpoint_data: the scheduler's entry is there only if there is a scheduler.
CheckpointData(i) ==
    IF i.sched # None
    THEN [model_state_dict |-> i.actor, optimizer_state_dict |-> i.opt,
          scheduler_state_dict |-> i.sched]
    ELSE [model_state_dict |-> i.actor, optimizer_state_dict |-> i.opt]

\* A checkpoint left in output_path by an earlier save.
OldDisk ==
    [model |-> <<[model_state_dict |-> 0, optimizer_state_dict |-> 0,
                  scheduler_state_dict |-> 0]>>,
     backup |-> Absent, meta |-> <<0>>]

\* save: nothing with disable_checkpoint; otherwise model.tar is copied to
\* model_bak.tar if it exists, then written, then the metadata file.
save(i, d) ==
    IF i.disable_checkpoint
    THEN d
    ELSE [model |-> <<CheckpointData(i)>>,
          backup |-> IF d.model # Absent THEN d.model ELSE d.backup,
          meta |-> <<i.last>>]

\* (mutant) load that opens model.tar without looking whether it exists.
loadUnguarded(i, d) ==
    IF d.model = Absent
    THEN [inst |-> i, result |-> "FileNotFoundError"]
    ELSE LET ck == d.model[1]
             i1 == [i EXCEPT !.actor = ck.model_state_dict,
                             !.learner = ck.model_state_dict,
                             !.opt = ck.optimizer_state_dict]
         IN IF "scheduler_state_dict" \notin DOMAIN ck
            THEN [inst |-> i1, result |-> "KeyError"]
            ELSE [inst |-> IF d.meta = Absent
                           THEN [i1 EXCEPT !.pending = ck.scheduler_state_dict]
                           ELSE [i1 EXCEPT !.pending = ck.scheduler_state_dict,
                                           !.last = d.meta[1]],
                  result |-> "loaded"]

\* load: if model.tar exists, the actor and the learner model get
\* model_state_dict, the optimizer optimizer_state_dict, and
\* checkpoint["scheduler_state_dict"] is kept for train (KeyError if the
\* checkpoint has no such entry); then, if the metadata file exists,
\* last_timestep_returned is taken from it.
load(i, d) ==
    LET ck == IF d.model = Absent THEN [none |-> 0] ELSE d.model[1]
        i1 == IF d.model = Absent THEN i
              ELSE [i EXCEPT !.actor = ck.model_state_dict,
                             !.learner = ck.model_state_dict,
                             !.opt = ck.optimizer_state_dict]
    IN IF d.model # Absent /\ "scheduler_state_dict" \notin DOMAIN ck
       THEN [inst |-> i1, result |-> "KeyError"]
       ELSE LET i2 == IF d.model = Absent THEN i1
                      ELSE [i1 EXCEPT !.pending = ck.scheduler_state_dict]
            IN [inst |-> IF d.meta = Absent THEN i2
                         ELSE [i2 EXCEPT !.last = d.meta[1]],
                result |-> "loaded"]

\* The instance load() is called on: a new one, or one that has trained (its
\* weights and optimizer state have moved) and has no scheduler state pending.
Used(dis) ==
    [NewInstance(dis) EXCEPT !.actor = MaxWeight, !.learner = MaxWeight,
                             !.opt = MaxWeight]

InitRoundTrip ==
    /\ flags = [num_actors |-> NumActors, num_buffers |-> NumBuffers,
                batch_size |-> BatchSize, optimizer |-> "rmsprop",
                num_learner_threads |-> NumLearnerThreads]
    /\ built = [result |-> "ok", buffers |-> NumBuffers]
    /\ saved \in Instances
    /\ disk \in {EmptyDisk, OldDisk}
    /\ fresh \in {NewInstance(saved.disable_checkpoint), Used(saved.disable_checkpoint)}
    /\ kpc = "new"
    /\ NoSideWork
    /\ Unstarted

\* saved.save(output_path)
Save ==
    /\ kpc = "new"
    /\ disk' = save(saved, disk)
    /\ kpc' = "saved"
    /\ UNCHANGED <<flags, built, saved, fresh, side, pause, free, full,
                   avars, lvars, ovars>>

\* fresh.load(output_path)
Load ==
    /\ kpc = "saved"
    /\ fresh' = load(fresh, disk).inst
    /\ kpc' = load(fresh, disk).result
    /\ UNCHANGED <<flags, built, saved, disk, side, pause, free, full,
                   avars, lvars, ovars>>

NextRoundTrip == Save \/ Load

SpecRoundTrip == InitRoundTrip /\ [][NextRoundTrip]_vars

\* ------------------------------------------------------- the video queue
\* py_mp.Manager().Queue(maxsize=1)
VideoQueueSize == 1
\* Episodes actor 0 completes.
MaxEpisodes == 3

\* What the video block and the orchestrator's video read leave alone.
beside == <<flags, built, saved, disk, fresh, kpc, lossvars, waitvars,
            standalone, pause, free, full, avars, lvars, ovars>>

\* Frames actor 0 keeps for one episode.
MaxFrames == 3

\* copy.deepcopy(observations_to_render) of the episode just completed.
Snapshot == [episode |-> episode, frames |-> observations_to_render]

\* env.step returns without done for actor 0: the frame is appended to
\* observations_to_render.
VStep ==
    /\ vpc = "step"
    /\ observations_to_render < MaxFrames
    /\ observations_to_render' = observations_to_render + 1
    /\ UNCHANGED <<beside, videos_to_log, vpc, episode, video, unread>>

\* env.step returns done for actor 0: an episode is complete and its frames
\* are in observations_to_render.
VDone ==
    /\ vpc = "step"
    /\ episode < MaxEpisodes
    /\ episode' = episode + 1
    /\ vpc' = "get"
    /\ UNCHANGED <<beside, videos_to_log, observations_to_render, video, unread>>

\* self._videos_to_log.get(timeout=1): takes the snapshot that is there, or
\* raises queue.Empty after a second; either way the put comes next.
VGet ==
    /\ vpc = "get"
    /\ videos_to_log' = IF videos_to_log = <<>> THEN <<>> ELSE Tail(videos_to_log)
    /\ vpc' = "put"
    /\ UNCHANGED <<beside, episode, observations_to_render, video, unread>>

\* The get raises FileNotFoundError, ConnectionRefusedError,
\* ConnectionResetError or RuntimeError: a warning is logged, nothing has been
\* taken from the queue, and the put comes next.
VGetFail ==
    /\ vpc = "get"
    /\ vpc' = "put"
    /\ UNCHANGED <<beside, videos_to_log, episode, observations_to_render, video,
                   unread>>

\* (mutant) a put on a queue made without maxsize.
VPutUnbounded ==
    /\ vpc = "put"
    /\ videos_to_log' = Append(videos_to_log, Snapshot)
    /\ unread' = Append(unread, Snapshot)
    /\ observations_to_render' = 1
    /\ vpc' = "step"
    /\ UNCHANGED <<beside, episode, video>>

\* self._videos_to_log.put(copy.deepcopy(observations_to_render)): blocks, with
\* no timeout, while the queue is full. Then observations_to_render is
\* cleared and the frame of this step appended to it.
VPut ==
    /\ vpc = "put"
    /\ Len(videos_to_log) < VideoQueueSize
    /\ videos_to_log' = Append(videos_to_log, Snapshot)
    /\ unread' = Append(unread, Snapshot)
    /\ observations_to_render' = 1
    /\ vpc' = "step"
    /\ UNCHANGED <<beside, episode, video>>

\* train: video = self._videos_to_log.get(block=False), once in every round
\* of the loop. With nothing in the queue (queue.Empty) or a connection error
\* the round goes on without a video and nothing changes.
OVideo ==
    /\ videos_to_log # <<>>
    /\ video' = <<Head(videos_to_log)>>
    /\ videos_to_log' = Tail(videos_to_log)
    /\ unread' = <<>>
    /\ UNCHANGED <<beside, vpc, episode, observations_to_render>>

NextTelemetry == VStep \/ VDone \/ VGet \/ VGetFail \/ VPut \/ OVideo

\* The pipeline runs; this specification follows the two users of the video
\* queue only.
SpecTelemetry == Init /\ [][NextTelemetry]_vars

\* ------------------------------------------------------------ compute_loss
\* Timesteps of the batch after its shift by one (the unroll length of the
\* batch the loss is computed on).
VtraceT == 2
\* Rewards are drawn from -MaxReward..MaxReward, baselines from
\* -MaxValue..MaxValue, importance ratios from 0..MaxRatio and the discount
\* factor from 0..MaxDiscount.
MaxReward == 2
MaxValue == 1
MaxRatio == 2
MaxDiscount == 1

Steps == 1..VtraceT

Min(x, y) == IF x <= y THEN x ELSE y

\* What compute_loss is called with: model_flags.reward_clipping and
\* model_flags.discounting; batch["reward"] and batch["done"] after the shift
\* batch[1:]; learner_outputs["baseline"] before the shift [:-1], its last
\* entry being the bootstrap value; and for each timestep the ratio of the
\* target policy's to the behaviour policy's probability of the action taken.
LossInputs ==
    [reward_clipping : {"abs_one", "none"},
     discounting : 0..MaxDiscount,
     reward : [Steps -> -MaxReward..MaxReward],
     done : [Steps -> BOOLEAN],
     baseline : [1..(VtraceT + 1) -> -MaxValue..MaxValue],
     ratio : [Steps -> 0..MaxRatio]]

\* bootstrap_value = learner_outputs["baseline"][-1]
bootstrap_value(b) == b.baseline[VtraceT + 1]

\* torch.clamp(rewards, -1, 1) with reward_clipping "abs_one", the rewards
\* themselves with "none".
clipped_rewards(b) ==
    [t \in Steps |->
        IF b.reward_clipping = "abs_one"
        THEN Max(-1, Min(1, b.reward[t]))
        ELSE b.reward[t]]

\* (mutant) discounts that ignore the done flags.
discountsThroughDone(b) == [t \in Steps |-> b.discounting]

\* discounts = (~batch["done"]).float() * model_flags.discounting
discounts(b) == [t \in Steps |-> IF b.done[t] THEN 0 ELSE b.discounting]

\* The clipping thresholds of the importance ratios.
RhoBar == 1
CBar == 1
rhos(b) == [t \in Steps |-> Min(RhoBar, b.ratio[t])]
cs(b) == [t \in Steps |-> Min(CBar, b.ratio[t])]

\* (mutant) the recursion with delta_t taken against V(x_{t+1}) rather than
\* vs_{t+1}.
RECURSIVE vsBaselineDelta(_, _)
vsBaselineDelta(b, t) ==
    IF t = VtraceT + 1 THEN bootstrap_value(b)
    ELSE LET next == vsBaselineDelta(b, t + 1)
             g == discounts(b)[t]
             delta == rhos(b)[t] * (clipped_rewards(b)[t] + g * b.baseline[t + 1]
                                      - b.baseline[t])
         IN b.baseline[t] + delta + g * cs(b)[t] * (next - b.baseline[t + 1])

\* vs_T = bootstrap; for t = T-1..0:
\* delta_t = rho_t (r_t + gamma_t vs_{t+1} - V(x_t)),
\* vs_t = V(x_t) + delta_t + gamma_t c_t (vs_{t+1} - V(x_{t+1})).
\* Timesteps are numbered from 1 here, so vs(b, VtraceT + 1) is the bootstrap.
RECURSIVE vs(_, _)
vs(b, t) ==
    IF t = VtraceT + 1 THEN bootstrap_value(b)
    ELSE LET next == vs(b, t + 1)
             g == discounts(b)[t]
             delta == rhos(b)[t] * (clipped_rewards(b)[t] + g * next
                                      - b.baseline[t])
         IN b.baseline[t] + delta + g * cs(b)[t] * (next - b.baseline[t + 1])

InitLoss ==
    /\ flags = [num_actors |-> NumActors, num_buffers |-> NumBuffers,
                batch_size |-> BatchSize, optimizer |-> "rmsprop",
                num_learner_threads |-> NumLearnerThreads]
    /\ built = [result |-> "ok", buffers |-> NumBuffers]
    /\ NoRoundTrip
    /\ NoTelemetry
    /\ NoWait
    /\ NoStandalone
    /\ loss_batch \in LossInputs
    /\ vtrace_returns = <<>>
    /\ Unstarted

\* compute_loss up to the V-trace returns.
ComputeLoss ==
    /\ vtrace_returns = <<>>
    /\ vtrace_returns' =
           <<[discounts |-> discounts(loss_batch),
              rewards |-> clipped_rewards(loss_batch),
              vs |-> [t \in 1..(VtraceT + 1) |-> vs(loss_batch, t)]]>>
    /\ UNCHANGED <<flags, built, saved, disk, fresh, kpc, telemetry, waitvars,
                   standalone, loss_batch, pause, free, full, avars, lvars,
                   ovars>>

NextLoss == ComputeLoss

SpecLoss == InitLoss /\ [][NextLoss]_vars

\* The policies agree on every action taken: every ratio is 1.
OnPolicy == \A t \in Steps : loss_batch.ratio[t] = 1

\* ---------------------------------------------------------------- wait_for
\* The timeouts wait_for is called with, in seconds.
MaxTimeout == 19

\* time_passed and delta are Python floats (IEEE 754 doubles). A double that
\* is a whole number of units of 2^-55 is kept as <<hi, lo>>, standing for
\* hi * 2^28 + lo units; every value below 4 that the loop reaches is one.
LoBase == 2^30
\* delta = 0.1, which as a double is 3602879701896397 * 2^-55
\* = (3355443 * 2^30 + 214748365) * 2^-55.
DeltaHi == 3355443
DeltaLo == 214748365
delta == <<DeltaHi, DeltaLo>>
\* 1 / delta, for timeouts in whole seconds.
PollsPerSecond == 10

\* The int timeout as a double.
AsDouble(seconds) == <<seconds * 2^25, 0>>

LessThan(x, y) == x[1] < y[1] \/ (x[1] = y[1] /\ x[2] < y[2])

\* The number of low bits a double of hi * 2^30 + lo units cannot hold: none
\* below 2^53 units, one more for every doubling from there.
RECURSIVE Log2(_)
Log2(n) == IF n < 2 THEN 0 ELSE 1 + Log2(n \div 2)
LostBits(hi) == IF hi < 2^23 THEN 0 ELSE 1 + Log2(hi \div 2^23)

\* x + y in double arithmetic: the exact sum, rounded to the nearest double,
\* a tie going to the one with an even significand.
fadd(x, y) ==
    LET lo0 == x[2] + y[2]
        hi == x[1] + y[1] + (lo0 \div LoBase)
        lo == lo0 % LoBase
        q == 2^LostBits(hi)
        r == lo % q
        down == lo - r
        rounded == IF 2 * r < q THEN down
                   ELSE IF 2 * r > q THEN down + q
                   ELSE IF (down \div q) % 2 = 0 THEN down ELSE down + q
    IN IF rounded >= LoBase THEN <<hi + 1, rounded - LoBase>>
       ELSE <<hi, rounded>>

\* The lists of states waited for.
DesiredLists == {{STOPPED}, {RUNNING, STOPPED}}

\* wait_for(desired_state_list, timeout) has been called: time_passed = 0.
InitWait ==
    /\ flags = [num_actors |-> NumActors, num_buffers |-> NumBuffers,
                batch_size |-> BatchSize, optimizer |-> "rmsprop",
                num_learner_threads |-> NumLearnerThreads]
    /\ built = [result |-> "ok", buffers |-> NumBuffers]
    /\ NoRoundTrip
    /\ NoTelemetry
    /\ NoLoss
    /\ NoStandalone
    /\ thread_state \in {STARTING, RUNNING, STOP_REQUESTED, STOPPED}
    /\ \E d \in DesiredLists, seconds \in 0..MaxTimeout :
           wait = [desired_state_list |-> d, timeout |-> seconds,
                   time_passed |-> <<0, 0>>, polls |-> 0, pc |-> "while",
                   gave_up |-> FALSE]
    /\ Unstarted

notwait == <<flags, built, saved, disk, fresh, kpc, telemetry, lossvars,
             standalone, pause, free, full, avars, lvars, ovars>>

\* (mutant) a loop that sleeps once before it looks at the state.
WWhileAfterSleep ==
    /\ wait.pc = "while"
    /\ IF wait.polls = 0
          \/ (thread_state \notin wait.desired_state_list
               /\ LessThan(wait.time_passed, AsDouble(wait.timeout)))
       THEN wait' = [wait EXCEPT !.pc = "sleep"]
       ELSE wait' = [wait EXCEPT !.pc = "returned",
                                 !.gave_up = LessThan(AsDouble(wait.timeout),
                                                      wait.time_passed)]
    /\ UNCHANGED <<notwait, thread_state>>

\* while self.state not in desired_state_list and time_passed < timeout; after
\* the loop, the message is printed if time_passed > timeout, and wait_for
\* returns.
WWhile ==
    /\ wait.pc = "while"
    /\ IF thread_state \notin wait.desired_state_list
          /\ LessThan(wait.time_passed, AsDouble(wait.timeout))
       THEN wait' = [wait EXCEPT !.pc = "sleep"]
       ELSE wait' = [wait EXCEPT !.pc = "returned",
                                 !.gave_up = LessThan(AsDouble(wait.timeout),
                                                      wait.time_passed)]
    /\ UNCHANGED <<notwait, thread_state>>

\* time.sleep(delta); time_passed += delta
WSleep ==
    /\ wait.pc = "sleep"
    /\ wait' = [wait EXCEPT !.time_passed = fadd(@, delta),
                            !.polls = @ + 1,
                            !.pc = "while"]
    /\ UNCHANGED <<notwait, thread_state>>

\* Another thread assigns self.state while wait_for runs: the learner thread
\* (RUNNING, STOPPED), the orchestrator or cleanup (STOP_REQUESTED).
WOtherThread ==
    /\ wait.pc # "returned"
    /\ \E st \in {RUNNING, STOP_REQUESTED, STOPPED} :
           /\ st # thread_state
           /\ thread_state' = st
    /\ UNCHANGED <<notwait, wait>>

NextWait == WWhile \/ WSleep \/ WOtherThread

\* The caller of wait_for keeps running.
SpecWait == InitWait /\ [][NextWait]_vars /\ WF_vars(WWhile \/ WSleep)

\* ------------------------------------------------- act: what is written
\* One actor process is followed with the values it writes. Every env.step and
\* every call of the model gives a value of its own: env_output is the number
\* of env.step calls so far (0: env.initial()), agent_output the number of
\* model calls so far (1: the call before the loop) and agent_state the call
\* that returned it (0: model.initial_state).
Timesteps == 1..(UnrollLength + 1)

\* torch.empty: nothing written yet.
EmptySlot ==
    [env |-> [t \in Timesteps |-> None], agent |-> [t \in Timesteps |-> None],
     state |-> None, by |-> [t \in Timesteps |-> 0]]

\* act has run up to its loop; train has not yet filled the free queue.
InitAct ==
    /\ flags = [num_actors |-> NumActors, num_buffers |-> NumBuffers,
                batch_size |-> BatchSize, optimizer |-> "rmsprop",
                num_learner_threads |-> NumLearnerThreads]
    /\ built = [result |-> "ok", buffers |-> NumBuffers]
    /\ NoRoundTrip
    /\ NoTelemetry
    /\ NoLoss
    /\ NoWait
    /\ actor = [pc |-> "get", index |-> None, t |-> 0, rollout |-> 0,
                env_output |-> 0, agent_output |-> 1, agent_state |-> 0]
    /\ buffers = [m \in Slots |-> EmptySlot]
    /\ previous = <<>>
    /\ NoSaves
    /\ NoStepWork
    /\ NoLoader
    /\ NoCollection
    /\ Unstarted

notact == <<flags, built, saved, disk, fresh, kpc, telemetry, lossvars,
            waitvars, blobs, stepwork, loader, collection, pause, avars, lvars>>
notfill == <<last, ret, out, opc, gen, epoch>>

\* train: for m in range(num_buffers): free_queue.put(m), after the actors
\* have been started.
AFill ==
    /\ oi < flags.num_buffers
    /\ free' = Append(free, oi)
    /\ oi' = oi + 1
    /\ UNCHANGED <<notact, notfill, full, actvars>>

\* index = free_queue.get(): blocks while the queue is empty.
AGet ==
    /\ actor.pc = "get"
    /\ actor.rollout < MaxRollouts
    /\ free # <<>>
    /\ actor' = [actor EXCEPT !.index = Head(free), !.rollout = @ + 1,
                              !.t = 0, !.pc = "old"]
    /\ free' = Tail(free)
    /\ UNCHANGED <<notact, notfill, oi, full, buffers, previous>>

\* (mutant) an actor that carries nothing over: timestep 0 and the initial
\* recurrent state of the slot are left as they are.
AWriteOldNothing ==
    /\ actor.pc = "old"
    /\ actor' = [actor EXCEPT !.pc = "step"]
    /\ UNCHANGED <<notact, notfill, oi, free, full, buffers, previous>>

\* Write old rollout end: buffers[key][index][0, ...] = env_output[key] and
\* agent_output[key]; initial_agent_state_buffers[index] = agent_state.
AWriteOld ==
    /\ actor.pc = "old"
    /\ buffers' = [buffers EXCEPT ![actor.index] =
           [@ EXCEPT !.env[1] = actor.env_output,
                     !.agent[1] = actor.agent_output,
                     !.state = actor.agent_state,
                     !.by[1] = actor.rollout]]
    /\ actor' = [actor EXCEPT !.pc = "step"]
    /\ UNCHANGED <<notact, notfill, oi, free, full, previous>>

\* One pass of for t in range(unroll_length): the model is called, the
\* environment stepped, and both outputs written at timestep t + 1.
AStep ==
    /\ actor.pc = "step"
    /\ LET call == actor.agent_output + 1
           stepped == actor.env_output + 1
       IN /\ buffers' = [buffers EXCEPT ![actor.index] =
                 [@ EXCEPT !.env[actor.t + 2] = stepped,
                           !.agent[actor.t + 2] = call,
                           !.by[actor.t + 2] = actor.rollout]]
          /\ actor' = [actor EXCEPT
                 !.agent_output = call, !.agent_state = call,
                 !.env_output = stepped, !.t = @ + 1,
                 !.pc = IF actor.t + 1 = UnrollLength THEN "put" ELSE "step"]
    /\ UNCHANGED <<notact, notfill, oi, free, full, previous>>

\* full_queue.put(index). What the rollout wrote is remembered, with the
\* recurrent state it ended in.
APut ==
    /\ actor.pc = "put"
    /\ full' = Append(full, actor.index)
    /\ previous' = <<[env |-> buffers[actor.index].env,
                      agent |-> buffers[actor.index].agent,
                      agent_state |-> actor.agent_state]>>
    /\ actor' = [actor EXCEPT !.index = None, !.pc = "get"]
    /\ UNCHANGED <<notact, notfill, oi, free, buffers>>

\* Another actor process takes a free slot, writes a rollout of its own into
\* it and puts it on the full queue.
AOtherActor ==
    /\ free # <<>>
    /\ buffers' = [buffers EXCEPT ![Head(free)] = EmptySlot]
    /\ full' = Append(full, Head(free))
    /\ free' = Tail(free)
    /\ UNCHANGED <<notact, notfill, oi, actor, previous>>

\* get_batch of a learner thread: batch_size indices are taken from the full
\* queue and, once their slots are copied, put back on the free queue.
AGetBatch ==
    /\ Len(full) >= flags.batch_size
    /\ free' = free \o SubSeq(full, 1, flags.batch_size)
    /\ full' = SubSeq(full, flags.batch_size + 1, Len(full))
    /\ UNCHANGED <<notact, notfill, oi, actvars>>

NextAct == AFill \/ AGet \/ AWriteOld \/ AStep \/ APut \/ AOtherActor \/ AGetBatch

SpecAct == InitAct /\ [][NextAct]_vars

\* ----------------------------------------------- save, statement by statement
\* save() is called again and again on an instance that trains in between.
MaxSaves == 3

InitSaves ==
    /\ flags = [num_actors |-> NumActors, num_buffers |-> NumBuffers,
                batch_size |-> BatchSize, optimizer |-> "rmsprop",
                num_learner_threads |-> NumLearnerThreads]
    /\ built = [result |-> "ok", buffers |-> NumBuffers]
    /\ saved \in Instances
    /\ disk \in {EmptyDisk, OldDisk}
    /\ fresh = NewInstance(FALSE)
    /\ kpc = "call"
    /\ NoTelemetry
    /\ NoLoss
    /\ NoWait
    /\ NoAct
    /\ blobs = <<>>
    /\ NoStepWork
    /\ NoLoader
    /\ NoCollection
    /\ Unstarted

notsaves == <<flags, built, fresh, telemetry, lossvars, waitvars, actvars,
              stepwork, loader, collection, pause, free, full, avars, lvars,
              ovars>>

\* if self._model_flags.disable_checkpoint: return
SEnter ==
    /\ kpc = "call"
    /\ kpc' = IF saved.disable_checkpoint THEN "returned" ELSE "backup"
    /\ UNCHANGED <<notsaves, saved, disk, blobs>>

\* (mutant) a save that takes no backup.
SBackupNothing ==
    /\ kpc = "backup"
    /\ kpc' = "write"
    /\ UNCHANGED <<notsaves, saved, disk, blobs>>

\* if os.path.exists(model_file_path): shutil.copyfile(model_file_path,
\* model_bak.tar)
SBackup ==
    /\ kpc = "backup"
    /\ disk' = IF disk.model # Absent THEN [disk EXCEPT !.backup = disk.model]
               ELSE disk
    /\ kpc' = "write"
    /\ UNCHANGED <<notsaves, saved, blobs>>

\* torch.save(checkpoint_data, model_file_path)
SWrite ==
    /\ kpc = "write"
    /\ disk' = [disk EXCEPT !.model = <<CheckpointData(saved)>>]
    /\ blobs' = Append(blobs, CheckpointData(saved))
    /\ kpc' = "meta"
    /\ UNCHANGED <<notsaves, saved>>

\* json.dump({"last_timestep_returned": ...}, metadata_file), and save returns.
SMeta ==
    /\ kpc = "meta"
    /\ disk' = [disk EXCEPT !.meta = <<saved.last>>]
    /\ kpc' = "returned"
    /\ UNCHANGED <<notsaves, saved, blobs>>

\* The instance trains on, and save is called again with the same
\* output_path.
STrain ==
    /\ kpc = "returned"
    /\ Len(blobs) < MaxSaves
    /\ \E i \in Instances :
           /\ i.disable_checkpoint = saved.disable_checkpoint
           /\ (i.sched = None) = (saved.sched = None)
           /\ i.learner = i.actor
           /\ i.last >= saved.last
           /\ saved' = i
    /\ kpc' = "call"
    /\ UNCHANGED <<notsaves, disk, blobs>>

NextSaves == SEnter \/ SBackup \/ SWrite \/ SMeta \/ STrain

SpecSaves == InitSaves /\ [][NextSaves]_vars

\* ------------------------------------------------------ ConfigurationLoader
\* The most experiments a configuration lists, and the most calls followed.
MaxExperiments == 3
MaxCalls == 4

\* str(experiment_id)
Digits == <<"0", "1", "2", "3", "4", "5", "6", "7", "8", "9">>
RECURSIVE Str(_)
Str(n) == IF n < 10 THEN Digits[n + 1] ELSE Str(n \div 10) \o Digits[(n % 10) + 1]

\* What os.listdir(experiment_base_directory) can hold before the first call:
\* numbered folders of earlier runs and something that is no number.
Names == {Str(i) : i \in 0..MaxExperiments} \cup {"notes.txt"}

\* A raw experiment dictionary is the set of its keys.
RawConfig == {"policy", "experiment", "seed"}

\* (mutant) the next experiment is taken to be the number of numbered folders
\* there are.
FolderCount(experiment_id, n, existing_experiments) ==
    LET k == Cardinality({i \in 0..(n - 1) : Str(i) \in existing_experiments})
    IN IF k >= n THEN None ELSE k

\* The smallest experiment_id in range(len(experiments)) with no entry of that
\* name in the directory, None if there is none.
RECURSIVE FirstMissing(_, _, _)
FirstMissing(experiment_id, n, existing_experiments) ==
    IF experiment_id >= n THEN None
    ELSE IF Str(experiment_id) \notin existing_experiments THEN experiment_id
    ELSE FirstMissing(experiment_id + 1, n, existing_experiments)

\* The call ends in an exception, with the directory as it is by then.
Raised(l, timestamp, exception) ==
    [l EXCEPT !.calls = Append(@, [timestamp |-> timestamp, id |-> None,
                                   result |-> exception, loaded |-> FALSE])]

\* Lines 117-134: with an experiment to run, its output directory is made
\* (FileExistsError if it is there), the json log written into it, and the
\* experiment spec and policy config are made from the raw dictionary, which
\* loses its "experiment" and "policy" entries (KeyError if it has none).
Inflate(l, timestamp, next_experiment_id, experiment_output_dir) ==
    IF next_experiment_id = None
    THEN [l EXCEPT !.calls = Append(@, [timestamp |-> timestamp, id |-> None,
                                        result |-> "returned",
                                        loaded |-> FALSE])]
    ELSE IF experiment_output_dir \in l.listing
    THEN Raised(l, timestamp, "FileExistsError")
    ELSE LET made == [l EXCEPT !.listing = @ \cup {experiment_output_dir}]
             raw_config == l.experiments[next_experiment_id + 1]
         IN IF ~({"experiment", "policy"} \subseteq raw_config)
            THEN Raised(made, timestamp, "KeyError")
            ELSE [made EXCEPT
                     !.experiments[next_experiment_id + 1] =
                         raw_config \ {"experiment", "policy"},
                     !.calls = Append(@, [timestamp |-> timestamp,
                                          id |-> next_experiment_id,
                                          result |-> "returned",
                                          loaded |-> TRUE])]

\* load_next_experiment_from_dicts(experiment_base_directory, experiments,
\* subdirectory_from_timestamp): the base directory is made if it is not
\* there; with a timestamp subdirectory the length of the list is asserted
\* and experiment 0 taken, otherwise the first experiment without a numbered
\* folder.
load_next_experiment_from_dicts(l, subdirectory_from_timestamp) ==
    LET based == [l EXCEPT !.exists = TRUE]
        n == Len(l.experiments)
    IN IF subdirectory_from_timestamp
       THEN IF n # 0
            THEN Raised(based, TRUE, "AssertionError")
            ELSE IF n = 0
            THEN Raised(based, TRUE, "IndexError")
            ELSE Inflate([based EXCEPT !.stamped = @ + 1], TRUE, 0,
                         "policy_experiment_" \o Str(l.stamped))
       ELSE LET next_experiment_id == FirstMissing(0, n, based.listing)
            IN Inflate(based, FALSE, next_experiment_id,
                       IF next_experiment_id = None THEN "None"
                       ELSE Str(next_experiment_id))

InitLoader ==
    /\ flags = [num_actors |-> NumActors, num_buffers |-> NumBuffers,
                batch_size |-> BatchSize, optimizer |-> "rmsprop",
                num_learner_threads |-> NumLearnerThreads]
    /\ built = [result |-> "ok", buffers |-> NumBuffers]
    /\ NoRoundTrip
    /\ NoTelemetry /\ NoLoss /\ NoWait /\ NoAct /\ NoSaves /\ NoStepWork
    /\ NoCollection
    /\ \E n \in 0..MaxExperiments, listing \in SUBSET Names, exists \in BOOLEAN :
           /\ listing # {} => exists
           /\ loader = [experiments |-> [i \in 1..n |-> RawConfig],
                        exists |-> exists, listing |-> listing, stamped |-> 0,
                        calls |-> <<>>]
    /\ Unstarted

notloader == <<flags, built, saved, disk, fresh, kpc, telemetry, lossvars,
               waitvars, actvars, blobs, stepwork, collection, pause, free,
               full, avars, lvars, ovars>>

\* One call of load_next_experiment_from_dicts with the same list and the same
\* base directory.
LoadNext ==
    /\ Len(loader.calls) < MaxCalls
    /\ \E subdirectory_from_timestamp \in BOOLEAN :
           loader' = load_next_experiment_from_dicts(loader,
                                                     subdirectory_from_timestamp)
    /\ UNCHANGED notloader

NextLoader == LoadNext

SpecLoader == InitLoader /\ [][NextLoader]_vars

\* -------------------------------------------------------- CollectionProcess
\* The most messages the caller sends.
MaxMessages == 4

\* The action ids of a message: the two process_queue knows and another one.
ActionIds == {"kill", "start_episode", "render"}

\* What collect_data returns for the request of a message: the results of
\* that request.
collect_data(content) == [results_of |-> content]

\* CollectionProcess(...): two empty queues; process_queue is started in a
\* process of its own.
InitCollection ==
    /\ flags = [num_actors |-> NumActors, num_buffers |-> NumBuffers,
                batch_size |-> BatchSize, optimizer |-> "rmsprop",
                num_learner_threads |-> NumLearnerThreads]
    /\ built = [result |-> "ok", buffers |-> NumBuffers]
    /\ NoRoundTrip
    /\ NoTelemetry /\ NoLoss /\ NoWait /\ NoAct /\ NoSaves /\ NoStepWork
    /\ NoLoader
    /\ collection = [incoming_queue |-> <<>>, outgoing_queue |-> <<>>,
                     pc |-> "get", next_message |-> <<>>, results |-> <<>>,
                     arrived |-> <<>>, handled |-> 0, put |-> <<>>]
    /\ Unstarted

notcollection == <<flags, built, saved, disk, fresh, kpc, telemetry, lossvars,
                   waitvars, actvars, blobs, stepwork, loader, pause, free,
                   full, avars, lvars, ovars>>

\* The caller puts a message on the incoming queue; its content is the number
\* of the request.
CSend ==
    /\ Len(collection.arrived) < MaxMessages
    /\ \E action_id \in ActionIds :
           LET next_message == <<action_id, Len(collection.arrived) + 1>>
           IN collection' = [collection EXCEPT
                                !.incoming_queue = Append(@, next_message),
                                !.arrived = Append(@, next_message)]
    /\ UNCHANGED notcollection

\* next_message = self.incoming_queue.get(): blocks while the queue is empty.
CGet ==
    /\ collection.pc = "get"
    /\ collection.incoming_queue # <<>>
    /\ collection' = [collection EXCEPT
                         !.next_message = Head(collection.incoming_queue),
                         !.incoming_queue = Tail(@),
                         !.handled = @ + 1,
                         !.pc = "dispatch"]
    /\ UNCHANGED notcollection

\* if action_id == "kill": break
CKill ==
    /\ collection.pc = "dispatch"
    /\ collection.next_message[1] = "kill"
    /\ collection' = [collection EXCEPT !.pc = "stopped"]
    /\ UNCHANGED notcollection

\* elif action_id == "start_episode": results = collect_data(...)
CCollect ==
    /\ collection.pc = "dispatch"
    /\ collection.next_message[1] = "start_episode"
    /\ collection' = [collection EXCEPT
                         !.results = <<collect_data(collection.next_message[2])>>,
                         !.pc = "put"]
    /\ UNCHANGED notcollection

\* self.outgoing_queue.put(results)
CPut ==
    /\ collection.pc = "put"
    /\ collection' = [collection EXCEPT
                         !.outgoing_queue = Append(@, collection.results[1]),
                         !.put = Append(@, collection.results[1]),
                         !.results = <<>>,
                         !.pc = "get"]
    /\ UNCHANGED notcollection

\* (mutant) a loop that ends on any message it does not know.
COtherBreaks ==
    /\ collection.pc = "dispatch"
    /\ collection.next_message[1] \notin {"kill", "start_episode"}
    /\ collection' = [collection EXCEPT !.pc = "stopped"]
    /\ UNCHANGED notcollection

\* Any other action id: neither branch is taken and the loop goes on.
COther ==
    /\ collection.pc = "dispatch"
    /\ collection.next_message[1] \notin {"kill", "start_episode"}
    /\ collection' = [collection EXCEPT !.pc = "get"]
    /\ UNCHANGED notcollection

\* The caller takes a result from the outgoing queue.
CTake ==
    /\ collection.outgoing_queue # <<>>
    /\ collection' = [collection EXCEPT !.outgoing_queue = Tail(@)]
    /\ UNCHANGED notcollection

NextCollection == CSend \/ CGet \/ CKill \/ CCollect \/ CPut \/ COther \/ CTake

SpecCollection == InitCollection /\ [][NextCollection]_vars

\* ------------------------------------------------------ every accepted pool
\* The flags setup accepts, with the batch size and up to the numbers of
\* actors and buffers of the pipeline modelled here.
Accepted ==
    {f \in FlagSets :
        /\ f.num_actors \in 1..NumActors
        /\ f.num_buffers \in 1..NumBuffers
        /\ f.batch_size = BatchSize
        /\ f.optimizer = "rmsprop"
        /\ setup(f).result = "ok"}

InitPool ==
    /\ NoRoundTrip
    /\ NoSideWork
    /\ flags \in Accepted
    /\ built = setup(flags)
    /\ pause \in BOOLEAN
    /\ Started(0)

SpecPool == InitPool /\ [][Next]_vars /\ Fairness

\* Nothing can move any more: both queues are empty, no actor holds an index,
\* every live learner thread is at or before a full_queue.get() that cannot
\* return, and the orchestrator's test of step finds nothing new, so that no
\* barrier will refill the free queue.
Starved ==
    /\ opc = "sleep" /\ step = last
    /\ free = <<>> /\ full = <<>>
    /\ \A a \in Actors : apc[a] \in {"get", "absent"}
    /\ \E t \in Threads : lpc[t] = "dequeue"
    /\ \A t \in Threads : IsAlive(t) => lpc[t] \in {"check", "lock", "dequeue"}

\* ------------------------------------------------------------ slot ownership
\* The slot indices a worker holds: an actor from free_queue.get() to
\* full_queue.put(index), a batch assembler from full_queue.get() until it has
\* copied the slots of its batch.
ActorHeld == {a \in Actors : aidx[a] # -1}
Draining(t) == lpc[t] = "dequeue" /\ Len(lidx[t]) >= 1
ReaderSlots(t) ==
    IF lpc[t] \in {"dequeue", "copy"}
    THEN {lidx[t][k].m : k \in DOMAIN lidx[t]}
    ELSE {}
\* No get_batch call holds an index it has taken and not yet put back.
NoBatchInHand == \A t \in Threads : lpc[t] \notin {"dequeue", "copy", "release"}

RECURSIVE Count(_, _)
Count(m, q) ==
    IF q = <<>> THEN 0
    ELSE (IF Head(q) = m THEN 1 ELSE 0) + Count(m, Tail(q))

\* How often slot index m occurs in the free queue, the full queue and the
\* actors' hands together.
Occurrences(m) ==
    Count(m, free) + Count(m, full) + Cardinality({a \in Actors : aidx[a] = m})

Indices(t) == [k \in DOMAIN lidx[t] |-> lidx[t][k].m]
BatchSlots(t) == [k \in DOMAIN lbatch[t] |-> lbatch[t][k].m]
\* get_batch has returned and learn has not begun.
Returned(t) == lpc[t] = "learnlock"
\* The timesteps of a slot are those of one rollout.
OneRollout(data) == \A i \in DOMAIN data : data[i] = data[1] /\ data[1] # 0

Stage(p) ==
    CASE p = "lock" -> 1 [] p = "dequeue" -> 2 [] p = "copy" -> 3
      [] p = "release" -> 4 [] p = "learnlock" -> 5 [] p = "learn" -> 6
      [] p = "stats" -> 7 [] p = "check" -> 8 [] OTHER -> 0

\* From the yield to the first put of the refill after the resume.
BeforeRefill ==
    \/ opc \in {"yielded", "resume", "create"}
    \/ opc = "refill" /\ oi = 0

\* ------------------------------------------------------------------ claims
\* C1: no slot index is held by two workers at once: no two actors hold (write)
\* the same slot, and no actor holds a slot that a batch assembler has drained
\* and not yet finished copying.
C1_NoSlotAliased ==
    /\ \A a, b \in ActorHeld : a # b => aidx[a] # aidx[b]
    /\ \A a \in ActorHeld : \A t \in Threads : aidx[a] \notin ReaderSlots(t)

\* C2: the indices in the free queue, in the full queue and checked out by
\* actors mid-rollout are num_buffers in all, at all times. Checked in the
\* states the claim is most plainly about: the orchestrator is in its loop
\* (outside the barrier and the refill) and no get_batch call holds an index,
\* so that every index is in a queue or in an actor's hands. A violation there
\* is a violation of the claim as worded.
C2_IndexCount ==
    (opc = "sleep" /\ NoBatchInHand) =>
        Len(free) + Len(full) + Cardinality(ActorHeld) = flags.num_buffers

\* C3: no slot index occurs more than once across the free queue, the full
\* queue and the actors' hands, so at most num_buffers indices are queued.
C3_NoDuplicateIndex ==
    /\ \A m \in Slots : Occurrences(m) <= 1
    /\ Len(free) + Len(full) <= flags.num_buffers

\* C4: while one get_batch call is between its first and its batch_size-th
\* full_queue.get(), no other learner thread takes an index from the full queue.
C4_OneDrainer ==
    [][\A t, u \in Threads :
          (t # u /\ Draining(t)) => Len(lidx'[u]) # Len(lidx[u]) + 1]_vars

\* C5: when get_batch returns it has taken exactly batch_size indices from the
\* full queue, its batch is made of exactly those slots, in order, and it has
\* put exactly those indices, each once, back on the free queue.
C5_BatchOfDrainedSlots ==
    \A t \in Threads :
        Returned(t) =>
            /\ Len(lidx[t]) = flags.batch_size
            /\ BatchSlots(t) = Indices(t)
            /\ lput[t] = Indices(t)

\* The scenario of C5: two rollouts published to two slots, before any pause,
\* are the batch, and the free queue ends with those two indices.
C5_Witness ==
    \E t \in Threads :
        /\ Returned(t) /\ epoch = 0
        /\ Len(lidx[t]) = flags.batch_size
        /\ Cardinality({lidx[t][k].m : k \in DOMAIN lidx[t]}) = flags.batch_size
        /\ \A k \in DOMAIN lbatch[t] : OneRollout(lbatch[t][k].data)
        /\ Len(free) >= flags.batch_size
        /\ SubSeq(free, Len(free) - flags.batch_size + 1, Len(free)) = Indices(t)

\* C6: every slot stacked into a batch held, when it was copied, the
\* unroll_length + 1 timesteps of one single rollout.
C6_BatchOfWholeRollouts ==
    \A t \in Threads : \A k \in DOMAIN lbatch[t] : OneRollout(lbatch[t][k].data)

\* C7: a thread whose stop is requested while it is between the start of
\* get_batch and the end of its statistics block goes on through every stage of
\* that iteration (the optimizer step and weight copy, step += T * B with the
\* stats appended), and its state becomes STOPPED only afterwards, in the check
\* at the top of the loop.
C7_StopOnlyAfterIteration ==
    [][\A t \in Threads :
          /\ (lstate[t] # STOPPED /\ lstate'[t] = STOPPED)
                => (lpc[t] = "check" /\ lstate[t] = STOP_REQUESTED)
          /\ (lstate[t] = STOP_REQUESTED /\ lpc[t] \in MidIter)
                => /\ lstate'[t] = STOP_REQUESTED
                   /\ Stage(lpc'[t]) \in {Stage(lpc[t]), Stage(lpc[t]) + 1}
                   /\ (lpc[t] = "learn" /\ lpc'[t] = "stats")
                         => nlearn' = nlearn + 1
                   /\ lpc'[t] = "check"
                         => (step' = step + StepsPerUpdate
                             /\ collected' = collected + 1)]_vars

\* A thread asked to stop in the middle of an iteration has stopped.
C7_Witness == \E t \in Threads : lmid[t] /\ lstate[t] = STOPPED

\* C8: while train() is suspended at its yield no learner thread takes an index
\* from the full queue, steps the optimizer, writes the actor model's weights
\* or increments step, and with pause_actors_during_yield no actor writes a
\* slot or touches a queue.
C8_FrozenAtYield ==
    [][opc = "yielded" =>
          /\ UNCHANGED <<lidx, lbatch, lput, nlearn, step, collected>>
          /\ pause => UNCHANGED <<cells, apc, aidx, free, full>>]_vars

\* C9: no batch holds both an index taken from the full queue before a yield
\* and an index taken after the resume that follows that yield. (The phase is
\* odd exactly while the generator is suspended at a yield.)
C9_NoBatchAcrossYield ==
    \A t \in Threads : \A i, j \in DOMAIN lidx[t] :
        ~ \E o \in 0..epoch :
              o % 2 = 1 /\ lidx[t][i].e < o /\ o < lidx[t][j].e

\* C10: from the moment of the yield until the orchestrator's refill after the
\* resume, the free queue and the full queue are empty.
C10_EmptyUntilRefill == BeforeRefill => (free = <<>> /\ full = <<>>)

\* C11: every thread state moves only along STARTING -> RUNNING ->
\* STOP_REQUESTED -> STOPPED: it is set to STOP_REQUESTED only when it is
\* RUNNING and it becomes STOPPED only from STOP_REQUESTED.
C11_LifecycleOrder ==
    [][\A t \in Threads :
          /\ (lstate'[t] = STOP_REQUESTED /\ lstate[t] # STOP_REQUESTED)
                => lstate[t] = RUNNING
          /\ (lstate'[t] = STOPPED /\ lstate[t] # STOPPED)
                => lstate[t] = STOP_REQUESTED
          /\ lstate'[t] >= lstate[t]]_vars

\* C12: once a thread state is STOPPED nothing changes it again.
C12_StoppedIsTerminal ==
    [][\A t \in Threads : lstate[t] = STOPPED => lstate'[t] = STOPPED]_vars

\* C13 (as stated): setup succeeds exactly when num_actors < num_buffers and
\* num_buffers >= batch_size, and every failure comes before any buffer is
\* allocated and before any worker is started.
C13_SetupExactly ==
    built.result # "none" =>
        /\ (built.result = "ok") <=> PoolFits
        /\ built.result # "ok" => (built.buffers = 0 /\ NoWorkerStarted)

\* C13 (amended): setup succeeds exactly when num_actors < num_buffers,
\* num_buffers >= batch_size and the optimizer is rmsprop or adam; flags that
\* break one of the two relations raise the error before any buffer is
\* allocated, and no failure leaves a worker started.
C13_SetupAccepts ==
    built.result # "none" =>
        /\ (built.result = "ok")
              <=> (PoolFits /\ flags.optimizer \in {"rmsprop", "adam"})
        /\ built.result = "ok" => built.buffers = flags.num_buffers
        /\ ~PoolFits => (built.result = "ValueError" /\ built.buffers = 0)
        /\ built.result # "ok" => NoWorkerStarted

\* setup has refused flags with fewer buffers than the batch size.
C13_Witness ==
    /\ built.result = "ValueError" /\ built.buffers = 0
    /\ flags.num_actors < flags.num_buffers
    /\ flags.num_buffers < flags.batch_size

\* C14: every 'step' that train() yields is greater than the
\* last_timestep_returned it began with (0, or what load() restored), and the
\* 'step' values of successive yields are strictly increasing.
C14_YieldsAdvance ==
    /\ \A i \in DOMAIN out.steps : out.steps[i] > out.from
    /\ \A i, j \in DOMAIN out.steps : i < j => out.steps[i] < out.steps[j]

\* C15: every mapping train() yields has the keys step, mean_episode_return
\* and step_delta and, for total_loss, pg_loss, baseline_loss and entropy_loss,
\* the key of the mean and the key of the count.
C15_YieldedKeys ==
    opc = "yielded" =>
        LET losses == {"total_loss", "pg_loss", "baseline_loss", "entropy_loss"}
        IN ({"step", "mean_episode_return", "step_delta"} \cup losses
               \cup {CountKey(k) : k \in losses}) \subseteq KeysOf(ret)

\* C16: under fair scheduling, with the orchestrator's loop running, train()
\* goes on yielding results whichever workers have crashed; in particular it
\* yields a first result.
C16_KeepsYielding == <>(Len(out.steps) > 0)

\* C17: each time the orchestrator resumes after a yield every actor index is
\* left backed by a live, runnable process: resume_actor_processes leaves the
\* actor it handles running, a dead one replaced by a new process that starts
\* act from the top on the same queues and buffers, the list of actors keeps
\* its length; and the orchestrator does not go on to restart the learners
\* past an actor that is dead.
C17_ActorsBackedAfterResume ==
    [][/\ (opc = "resume" /\ (oi' # oi \/ opc' # opc))
            => /\ apc'[oi] # "dead" /\ ~asusp'[oi]
               /\ apc[oi] = "dead" => (apc'[oi] = "get" /\ aidx'[oi] = -1)
               /\ DOMAIN apc' = Actors
       /\ (opc = "yielded" /\ opc' = "create")
            => \A a \in Actors : apc[a] # "dead"]_vars

\* C18: a learner thread that has ended, by an exception or by a stop, is
\* never run again; threads are started only by the orchestrator's restart
\* after a yield, which starts exactly num_learner_threads threads of a new
\* generation, each on a new thread state that is STARTING.
C18_LearnersReplacedAtResume ==
    [][LET started == {t \in Threads : ~IsAlive(t) /\ IsAlive(t)'}
       IN /\ \A t \in Threads :
                lpc[t] \in {"crashed", "done"} => lpc'[t] = lpc[t]
          /\ started # {} => (opc = "create" /\ opc' # "create")
          /\ (opc = "create" /\ opc' # "create")
                => /\ started = {t \in Threads : t[1] = gen + 1
                                                    /\ t[2] <= flags.num_learner_threads}
                   /\ Cardinality(started) = flags.num_learner_threads
                   /\ \A t \in started :
                         lstate'[t] = STARTING /\ lpc'[t] = "check"]_vars

\* A learner thread has crashed and the orchestrator's next restart has
\* started the thread that takes its place.
C18_Witness ==
    \E t \in Threads :
        /\ lpc[t] = "crashed" /\ gen = t[1] + 1
        /\ IsAlive(<<gen, t[2]>>)

\* C19: with no worker crash, for every configuration setup accepts, the
\* pool never starves: the pipeline never comes to a state in which a
\* get_batch call waits for an index and every actor waits for an index, with
\* nothing left that could hand one out.
C19_NoStarvation == ~Starved

\* C20: with checkpoints enabled, save followed by load on a new instance
\* ends without error and leaves the new instance with the saved instance's
\* actor weights, learner weights, optimizer state and last_timestep_returned.
C20_SaveLoadRoundTrip ==
    (kpc \in {"loaded", "KeyError"} /\ ~saved.disable_checkpoint) =>
        /\ kpc = "loaded"
        /\ fresh.actor = saved.actor
        /\ fresh.learner = saved.learner
        /\ fresh.opt = saved.opt
        /\ fresh.last = saved.last

\* C21: load(path) with no model.tar at path raises nothing and leaves the
\* weights of both models, the optimizer state and the pending scheduler state
\* as they were.
C21_LoadWithoutCheckpoint ==
    [][(kpc = "saved" /\ disk.model = Absent) =>
           /\ kpc' = "loaded"
           /\ fresh'.actor = fresh.actor
           /\ fresh'.learner = fresh.learner
           /\ fresh'.opt = fresh.opt
           /\ fresh'.pending = fresh.pending]_vars

\* load has returned with no model.tar there, on an instance that had trained.
C21_Witness ==
    /\ kpc = "loaded"
    /\ disk.model = Absent
    /\ fresh.actor = MaxWeight
    /\ fresh.opt = MaxWeight

\* C22: the video queue never holds more than one snapshot, what it holds is
\* the latest snapshot put, and once actor 0 has put two or more snapshots
\* since the orchestrator last took one, the queue holds the latest of them
\* and nothing else.
C22_OnlyLatestSnapshot ==
    /\ Len(videos_to_log) <= 1
    /\ videos_to_log # <<>> =>
           unread # <<>> /\ videos_to_log = <<unread[Len(unread)]>>
    /\ (vpc = "step" /\ Len(unread) >= 2) => videos_to_log # <<>>

\* Two snapshots have been put with no read by the orchestrator in between.
C22_Witness ==
    /\ Len(unread) = 2
    /\ vpc = "step"
    /\ videos_to_log = <<unread[2]>>
    /\ unread[1] # unread[2]
    /\ video = <<>>

\* C23: when actor 0 is at the put of a snapshot the queue has room, so the
\* put completes without waiting for the orchestrator to take a snapshot.
C23_PutNeverWaits ==
    vpc = "put" => Len(videos_to_log) < VideoQueueSize

\* C24: once train()'s shutdown path has run, every learner thread of
\* self._learner_thread_states eventually has state STOPPED and has ended, and
\* every actor process is dead.
C24_ShutdownStopsAll ==
    (opc = "ended") ~>
        /\ \A t \in Threads :
               (t[1] = gen /\ t[2] <= flags.num_learner_threads)
                   => (lstate[t] = STOPPED /\ ~IsAlive(t))
        /\ \A a \in Actors : apc[a] \in {"dead", "absent"}

C26_NoBootstrapAcrossDone ==
    vtrace_returns # <<>> =>
        LET v == vtrace_returns[1]
            b == loss_batch
        IN \A t \in Steps :
               /\ v.discounts[t] = IF b.done[t] THEN 0 ELSE b.discounting
               /\ b.done[t] =>
                      \A x \in -MaxValue..MaxValue :
                          v.vs[t] = b.baseline[t]
                                    + rhos(b)[t] * (v.rewards[t] + v.discounts[t] * x
                                                     - b.baseline[t])
                                    + v.discounts[t] * cs(b)[t] * (x - b.baseline[t + 1])

\* Targets have been computed for a batch with a done timestep, a nonzero
\* discount factor, and a target after the done timestep that is not 0.
C26_Witness ==
    /\ vtrace_returns # <<>>
    /\ loss_batch.discounting # 0
    /\ \E t \in Steps :
           /\ loss_batch.done[t]
           /\ rhos(loss_batch)[t] # 0
           /\ vtrace_returns[1].vs[t + 1] # 0

\* C27: the copy of the learner's weights into the actor model is under no
\* lock that learner threads share: a thread that has its batch and is about
\* to enter learn never has to wait for another thread.
C27_CopyUnderNoSharedLock ==
    \A t \in Threads : lpc[t] = "learnlock" => ENABLED LLearnLock(t)

\* C27, as the code has it: learn's whole body, the optimizer step and the
\* copy into the actor model included, runs under the learn lock that
\* create_learn_threads makes once for the threads it starts, so two threads
\* started by the same call are never inside it at the same time.
C27_LearnSerialisedPerCall ==
    \A t, u \in Threads :
        (t # u /\ t[1] = u[1] /\ lpc[t] = "learn") => lpc[u] # "learn"

\* One thread is inside learn while another thread of the same call has its
\* batch and waits to enter.
C27_Witness ==
    \E t, u \in Threads :
        /\ t # u /\ t[1] = u[1]
        /\ lpc[t] = "learn"
        /\ lpc[u] = "learnlock"

\* The part of a round in which stats_to_return holds statistics that have
\* been taken out of collected_stats and not yet been yielded.
InRound ==
    {"readstep", "readdelta", "test", "assign", "stop", "wait", "suspend",
     "drainfree", "drainfull"}

RECURSIVE SumSeq(_)
SumSeq(q) == IF q = <<>> THEN 0 ELSE Head(q) + SumSeq(Tail(q))

\* C28: the statistics of every completed learner update are in exactly one
\* place: a result that has been yielded, collected_stats, or the
\* stats_to_return of the round in progress; none is dropped and none is
\* reported twice.
C28_StatsYieldedOnce ==
    SumSeq(out.counts) + collected + (IF opc \in InRound THEN ret.count ELSE 0)
        = (step - out.from) \div StepsPerUpdate

\* C29: every yield after the first has step_delta = its step minus the step
\* of the yield before it, and the step_delta of all yields add up to the last
\* yielded step minus last_timestep_returned as it was when train() began.
C29_StepDeltasTelescope ==
    /\ \A k \in 2..Len(out.steps) :
           out.deltas[k] = out.steps[k] - out.steps[k - 1]
    /\ out.steps # <<>> =>
           SumSeq(out.deltas) = out.steps[Len(out.steps)] - out.from

\* C30: wait_for returns at once when the state is in the desired list, makes
\* at most timeout / delta polls, never assigns the state, and always returns.
C30_WaitForReturns ==
    /\ [](wait.polls <= PollsPerSecond * wait.timeout)
    /\ [][(wait' # wait /\ wait.pc = "while"
             /\ thread_state \in wait.desired_state_list)
            => wait'.pc = "returned"]_vars
    /\ [][wait' # wait => thread_state' = thread_state]_vars
    /\ <>(wait.pc = "returned")

\* C30, with the polls the float time_passed allows: the same, with at most
\* timeout / delta + 1 polls.
C30_WaitForReturnsOnePollLate ==
    /\ [](wait.polls <= PollsPerSecond * wait.timeout + 1)
    /\ [][(wait' # wait /\ wait.pc = "while"
             /\ thread_state \in wait.desired_state_list)
            => wait'.pc = "returned"]_vars
    /\ [][wait' # wait => thread_state' = thread_state]_vars
    /\ <>(wait.pc = "returned")

\* wait_for has returned after a timeout with the state not in the desired
\* list, having made timeout / delta + 1 polls.
C30_Witness ==
    /\ wait.pc = "returned"
    /\ wait.timeout > 0
    /\ thread_state \notin wait.desired_state_list
    /\ wait.polls = PollsPerSecond * wait.timeout + 1
    /\ wait.gave_up

\* C31: whenever wait_for returns because the timeout elapsed (it has polled,
\* and the state is not in the desired list when the loop ends), it has
\* emitted the give-up message.
C31_TimeoutIsLogged ==
    (/\ wait.pc = "returned"
     /\ wait.polls > 0
     /\ thread_state \notin wait.desired_state_list)
        => wait.gave_up

\* C32: within one actor process, timestep 0 of every rollout it writes equals
\* timestep unroll_length of the rollout it wrote before (environment output
\* and agent output), the slot's saved initial recurrent state is the recurrent
\* state at the end of that rollout, and an index is put on the full queue only
\* after all unroll_length + 1 timesteps of its slot are written.
C32_RolloutsOverlap ==
    /\ [](actor.pc = "put" /\ previous # <<>> =>
            /\ buffers[actor.index].env[1] = previous[1].env[UnrollLength + 1]
            /\ buffers[actor.index].agent[1] = previous[1].agent[UnrollLength + 1]
            /\ buffers[actor.index].state = previous[1].agent_state)
    /\ [][actor.pc = "put" /\ actor'.pc # "put" =>
            /\ full' = Append(full, actor.index)
            /\ \A t \in Timesteps : buffers[actor.index].by[t] = actor.rollout]_vars

\* The actor is about to publish its third rollout, whose timestep 0 holds the
\* environment output of the last step of its second.
C32_Witness ==
    /\ actor.pc = "put"
    /\ actor.rollout = 3
    /\ previous # <<>>
    /\ buffers[actor.index].env[1] = 2 * UnrollLength

\* C33: after two or more save() calls to the same path with checkpointing
\* enabled, the backup blob is the blob written by the save before the last
\* and the main blob that of the last save; within a save the previous blob is
\* copied to the backup, then the new blob is written, then the metadata; and
\* with disable_checkpoint set save() writes nothing.
C33_BackupIsPreviousSave ==
    /\ [](kpc = "returned" /\ Len(blobs) >= 2 =>
            /\ disk.backup = <<blobs[Len(blobs) - 1]>>
            /\ disk.model = <<blobs[Len(blobs)]>>
            /\ disk.meta = <<saved.last>>)
    /\ [][disk'.backup # disk.backup =>
            /\ kpc = "backup" /\ kpc' = "write"
            /\ disk'.backup = disk.model
            /\ disk'.model = disk.model /\ disk'.meta = disk.meta]_vars
    /\ [][disk'.model # disk.model =>
            /\ kpc = "write" /\ kpc' = "meta"
            /\ disk'.backup = disk.backup /\ disk'.meta = disk.meta]_vars
    /\ [][disk'.meta # disk.meta =>
            /\ kpc = "meta" /\ kpc' = "returned"
            /\ disk'.backup = disk.backup /\ disk'.model = disk.model]_vars
    /\ [][saved.disable_checkpoint => disk' = disk]_vars

\* The third save has returned: its blob differs from that of the second,
\* which is in the backup.
C33_Witness ==
    /\ kpc = "returned"
    /\ Len(blobs) = 3
    /\ blobs[2] # blobs[3]
    /\ disk.backup = <<blobs[2]>>
    /\ disk.model = <<blobs[3]>>

\* C34: a stop request is never lost: once a thread-state object has been set
\* to STOP_REQUESTED, the next value it takes is STOPPED, never RUNNING.
C34_StopRequestKept ==
    [][\A t \in Threads :
          lstate[t] = STOP_REQUESTED /\ lstate'[t] # STOP_REQUESTED
              => lstate'[t] = STOPPED]_vars

\* C35: with several learner threads interleaving, step never loses an
\* increment and never decreases: it is last_timestep_returned as train()
\* found it plus unroll_length * batch_size for every learner iteration that
\* has finished its statistics block, and last_timestep_returned <= step.
C35_StepCountsEveryUpdate ==
    /\ [](/\ step = out.from + StepsPerUpdate * stepwork.finished
          /\ last <= step)
    /\ [][step' >= step]_vars

\* Two learner threads are at their statistics blocks together, one inside,
\* having read step, and one waiting for the lock.
C35_Witness ==
    /\ \E t, u \in Threads :
           /\ t # u
           /\ lpc[t] = "stats" /\ stepwork.read[t] # None
           /\ lpc[u] = "stats" /\ stepwork.read[u] = None

\* C36: load_next_experiment_from_dicts with subdirectory_from_timestamp=False
\* selects the smallest experiment id in 0..len(experiments)-1 whose numbered
\* folder does not exist and creates that folder, so that successive calls on
\* the same base directory select no experiment twice and fill gaps first, and
\* a call made when all the folders exist returns (None, None) and creates no
\* folder.
C36_SelectsFirstMissing ==
    /\ [][(/\ loader'.calls # loader.calls
           /\ ~loader'.calls[Len(loader'.calls)].timestamp) =>
            LET c == loader'.calls[Len(loader'.calls)]
                missing == {i \in 0..(Len(loader.experiments) - 1) :
                              Str(i) \notin loader.listing}
            IN /\ c.result = "returned"
               /\ IF missing = {}
                  THEN /\ c.id = None /\ ~c.loaded
                       /\ loader'.listing = loader.listing
                  ELSE /\ c.id \in missing
                       /\ \A i \in missing : c.id <= i
                       /\ c.loaded
                       /\ loader'.listing = loader.listing \cup {Str(c.id)}]_vars
    /\ [](\A j, k \in DOMAIN loader.calls :
            (/\ j # k
             /\ ~loader.calls[j].timestamp /\ ~loader.calls[k].timestamp
             /\ loader.calls[j].id # None)
                => loader.calls[j].id # loader.calls[k].id)

\* With folders 0 and 2 there, the first call has run experiment 1 and the
\* second has found nothing left to run.
C36_Witness ==
    /\ Len(loader.experiments) = 3
    /\ Len(loader.calls) = 2
    /\ loader.calls[1] = [timestamp |-> FALSE, id |-> 1, result |-> "returned",
                          loaded |-> TRUE]
    /\ loader.calls[2] = [timestamp |-> FALSE, id |-> None,
                          result |-> "returned", loaded |-> FALSE]
    /\ {"0", "1", "2"} \subseteq loader.listing

\* C37: load_next_experiment_from_dicts with subdirectory_from_timestamp=True
\* and a list of exactly one experiment runs that experiment (id 0, its output
\* directory created, experiment spec and policy config returned), and fails
\* with the 'Multiple experiments available' assertion only when more than one
\* experiment is given.
C37_SingleExperimentRuns ==
    [][(/\ loader'.calls # loader.calls
        /\ loader'.calls[Len(loader'.calls)].timestamp) =>
         LET c == loader'.calls[Len(loader'.calls)]
             n == Len(loader.experiments)
         IN /\ n = 1 => /\ c.result = "returned"
                        /\ c.id = 0
                        /\ c.loaded
                        /\ loader'.listing # loader.listing
            /\ c.result = "AssertionError" => n > 1]_vars

\* The results owed for the first n messages sent: one for every
\* start_episode, in the order of the requests.
RECURSIVE Owed(_)
Owed(n) ==
    IF n = 0 THEN <<>>
    ELSE IF collection.arrived[n][1] = "start_episode"
    THEN Append(Owed(n - 1), collect_data(collection.arrived[n][2]))
    ELSE Owed(n - 1)

\* C38: process_queue handles the incoming messages strictly in arrival order:
\* every start_episode received before the first kill gets exactly one result
\* on the outgoing queue, in request order; on kill it stops and handles no
\* later message; any other action id gives no output and does not stop the
\* loop.
C38_InArrivalOrder ==
    /\ [](/\ collection.handled <= Len(collection.arrived)
          /\ collection.incoming_queue =
                 SubSeq(collection.arrived, collection.handled + 1,
                        Len(collection.arrived))
          /\ \A n \in 1..(collection.handled - 1) :
                 collection.arrived[n][1] # "kill"
          /\ collection.pc = "dispatch" =>
                 collection.next_message = collection.arrived[collection.handled]
          /\ collection.pc \in {"get", "stopped"} =>
                 collection.put = Owed(collection.handled)
          /\ collection.pc \in {"dispatch", "put"} =>
                 collection.put = Owed(collection.handled - 1)
          /\ collection.pc = "stopped" =>
                 collection.arrived[collection.handled][1] = "kill")
    /\ [][collection.pc = "stopped" =>
             /\ collection'.pc = "stopped"
             /\ collection'.handled = collection.handled
             /\ collection'.put = collection.put]_vars

\* The process has stopped on a kill that came after a start_episode and
\* another message, with a start_episode sent after the kill left unhandled.
C38_Witness ==
    /\ collection.pc = "stopped"
    /\ Len(collection.arrived) = 4
    /\ collection.arrived[1][1] = "render"
    /\ collection.arrived[2][1] = "start_episode"
    /\ collection.arrived[3][1] = "kill"
    /\ collection.arrived[4][1] = "start_episode"
    /\ collection.put = <<collect_data(2)>>
    /\ Len(collection.incoming_queue) = 1

====
